---- MODULE Spec2Model ----
(***************************************************************************)
(* Model of backend/services/code_executor.py: CodeExecutor.execute_code,  *)
(* CodeExecutor._execute_locally (one asyncio task running a batch of test *)
(* cases, each in a temp file and a child process) and the input() wrapper *)
(* that CodeExecutor._prepare_code_with_input prepends to the program.     *)
(*                                                                         *)
(* Text is a sequence of one-character strings.  Formatted messages are    *)
(* records that keep the parts the f-string is built from.                 *)
(***************************************************************************)
EXTENDS Integers, Sequences, FiniteSets, TLC

\* ------------------------------------------------------------------ bounds
\* Largest number of test cases in one request.
MaxTests == 2
\* Longest stdout / expected_output text explored for a one-test request.
MaxLen == 2
\* Longest stderr text explored for a one-test request.
MaxErrLen == 1
\* Longest input_data text given to the input virtualizer.
MaxInputLen == 3
\* Most input() calls the prepared program makes.
MaxCalls == 4
MaxNames == 2
MaxParTests == 2
MaxNodes == 2
MaxLines == 2
MaxCount == 2
MaxAnResults == 2
\* longest available_hints of a HintSystem
MaxHints == 3
\* most calls of get_next_hint on one HintSystem
MaxHintCalls == 4

\* ------------------------------------------------------------------ text
NL == "\n"
WhiteSpace == {" ", NL}
OutChars == {"a", " "}
ErrChars == {"E", " "}
InputChars == {"A", "B", NL}

RECURSIVE StrsOfLen(_, _)
StrsOfLen(chars, n) ==
    IF n = 0 THEN {<<>>}
    ELSE {<<c>> \o s : c \in chars, s \in StrsOfLen(chars, n - 1)}

\* every text over chars of length 0..n
Strs(chars, n) == UNION {StrsOfLen(chars, k) : k \in 0..n}

\* str.lstrip()
RECURSIVE LStrip(_)
LStrip(s) ==
    IF s = <<>> THEN <<>>
    ELSE IF Head(s) \in WhiteSpace THEN LStrip(Tail(s)) ELSE s

\* str.rstrip()
RECURSIVE RStrip(_)
RStrip(s) ==
    IF s = <<>> THEN <<>>
    ELSE IF s[Len(s)] \in WhiteSpace THEN RStrip(SubSeq(s, 1, Len(s) - 1)) ELSE s

\* str.strip(): leading and trailing whitespace removed, inner whitespace kept
Strip(s) == RStrip(LStrip(s))

\* str.strip("\n"): only leading and trailing newlines removed
RECURSIVE StripNL(_)
StripNL(s) ==
    IF s = <<>> THEN <<>>
    ELSE IF Head(s) = NL THEN StripNL(Tail(s))
    ELSE IF s[Len(s)] = NL THEN StripNL(SubSeq(s, 1, Len(s) - 1))
    ELSE s

\* str.split("\n"): the pieces between newlines, always at least one piece
RECURSIVE SplitNL(_)
SplitNL(s) ==
    IF \A k \in 1..Len(s) : s[k] # NL THEN <<s>>
    ELSE LET p == CHOOSE k \in 1..Len(s) : s[k] = NL /\ \A j \in 1..(k - 1) : s[j] # NL
         IN  <<SubSeq(s, 1, p - 1)>> \o SplitNL(SubSeq(s, p + 1, Len(s)))

\* "\n".join(parts)
RECURSIVE JoinNL(_)
JoinNL(parts) ==
    IF parts = <<>> THEN <<>>
    ELSE IF Len(parts) = 1 THEN parts[1]
    ELSE parts[1] \o <<NL>> \o JoinNL(Tail(parts))

\* Optional[str]
None == [some |-> FALSE, val |-> <<>>]
Some(s) == [some |-> TRUE, val |-> s]
\* `s or None`
OrNone(s) == IF s = <<>> THEN None ELSE Some(s)

\* error_message values
NoMsg == [kind |-> "none", text |-> <<>>, secs |-> 0, etype |-> "none"]
\* the stripped stderr text, `stderr_str or None`
StderrMsg(t) ==
    IF t = <<>> THEN NoMsg
    ELSE [kind |-> "stderr", text |-> t, secs |-> 0, etype |-> "none"]
\* f"Code execution timed out after {request.timeout_seconds}s"
TimeoutMsg(secs) == [kind |-> "timeout", text |-> <<>>, secs |-> secs, etype |-> "none"]
\* f"Execution error: {type(e).__name__}: {str(e)}"
ExecErrMsg(etype) == [kind |-> "exec", text |-> <<>>, secs |-> 0, etype |-> etype]

\* ------------------------------------------------------------------ data
\* timeout_seconds values a request may carry (an int, never validated)
TimeoutValues == {0, 1}
\* process exit codes
ExitCodes == {0, 1}
\* CodeExecutor(execution_backend=...)
Backends == {"local", "docker"}

\* a test case dictionary with both keys
TestCase(exp) == [has_expected |-> TRUE, expected_output |-> exp, input |-> <<"A">>]
\* a test case dictionary without the "expected_output" (and "input") key
NoExpected == [has_expected |-> FALSE, expected_output |-> <<>>, input |-> <<>>]

\* texts are explored to the full length for a request of at most one test
\* case; longer requests expect "a" and their children write at most one
\* character
LenBound(n, max) == IF n <= 1 THEN max ELSE 1
ExpectedOutputs(n) == IF n <= 1 THEN Strs(OutChars, MaxLen) ELSE {<<"a">>}
TestCases(n) == {NoExpected} \cup {TestCase(e) : e \in ExpectedOutputs(n)}
Requests ==
    UNION {[test_cases : [1..n -> TestCases(n)], timeout_seconds : TimeoutValues]
           : n \in 0..MaxTests}

NoProc == [done |-> FALSE, stdout |-> <<>>, stderr |-> <<>>, returncode |-> 0]
NoResult ==
    [test_id |-> -1, passed |-> FALSE, input_data |-> None, expected_output |-> <<>>,
     actual_output |-> None, error_message |-> NoMsg]
NoResponse ==
    [success |-> FALSE, total_tests |-> 0, passed_tests |-> 0, test_results |-> <<>>,
     overall_output |-> None, runtime_errors |-> <<>>]

\* two requests served concurrently by the singleton code_executor
ParTasks == {"A", "B"}
\* the names NamedTemporaryFile can generate: a name is never one of a file
\* that exists, and can be generated again once its file is deleted
ParNames == 1..MaxNames

\* ------------------------------------------------------- analyzer data
\* the node classes _analyze_syntax and _calculate_complexity look for, "Try"
\* (the parent of an ExceptHandler) and "Expr" for every other statement
NodeTypes ==
    {"If", "For", "While", "Try", "ExceptHandler", "BoolOp", "FunctionDef", "ClassDef",
     "Assign", "Import", "ImportFrom", "Expr"}
\* nodes with a statement body
BlockTypes == {"Module", "If", "For", "While", "Try", "ExceptHandler", "FunctionDef", "ClassDef"}
\* nodes with an expression operand
ExprHolders ==
    {"If", "For", "While", "ExceptHandler", "BoolOp", "FunctionDef", "ClassDef", "Assign",
     "Expr"}
\* len(node.values) of a BoolOp: `a and b`, `a and b and c`
OperandCounts == {2, 3}

\* the tree ast.parse returns: node k has a type, a parent (0 is the Module
\* root, otherwise an earlier node) and, for a BoolOp, its operand count
TypeOf(tree, k) == IF k = 0 THEN "Module" ELSE tree[k].type
NodeShapes ==
    [type : NodeTypes \ {"BoolOp"}, parent : 0..(MaxNodes - 1), values : {0}]
        \cup [type : {"BoolOp"}, parent : 0..(MaxNodes - 1), values : OperandCounts]
WellFormed(tree) ==
    \A k \in 1..Len(tree) :
        /\ tree[k].parent < k
        /\ CASE tree[k].type = "ExceptHandler" -> TypeOf(tree, tree[k].parent) = "Try"
             [] tree[k].type = "BoolOp" -> TypeOf(tree, tree[k].parent) \in ExprHolders
             [] OTHER -> TypeOf(tree, tree[k].parent) \in BlockTypes
Trees == {t \in UNION {[1..n -> NodeShapes] : n \in 0..MaxNodes} : WellFormed(t)}

\* the lines of the program text, as the style pass sees them: a blank line,
\* a comment line, `x = 1`, `total = 1`, a code line of over 100 characters
\* and a line of over 100 blanks
LineKinds == {"blank", "comment", "assign", "named", "long", "long_blank"}
\* the lines with len(line) > 100
LongKinds == {"long", "long_blank"}
\* the lines with line.strip() empty
BlankKinds == {"blank", "long_blank"}
LineSeqs == UNION {[1..n -> LineKinds] : n \in 0..MaxLines}
\* e.lineno of a SyntaxError
ErrorLines == {1, 2}

\* student_code: what ast.parse does with it (a tree, a SyntaxError, or for an
\* expression nested too deeply a RecursionError) and its lines
ParsedCode(tree, lines) ==
    [parsed |-> TRUE, raises |-> "none", lineno |-> 0, tree |-> tree, lines |-> lines]
BrokenCode(lineno, lines) ==
    [parsed |-> FALSE, raises |-> "SyntaxError", lineno |-> lineno, tree |-> <<>>,
     lines |-> lines]
ExhaustingCode(lines) ==
    [parsed |-> FALSE, raises |-> "RecursionError", lineno |-> 0, tree |-> <<>>,
     lines |-> lines]

\* the exception names a TestResult.error_message can contain
ErrorNames == {"NameError", "TypeError", "IndentationError"}
NoError == [present |-> FALSE, names |-> {}]
ErrorWith(names) == [present |-> TRUE, names |-> names]
AnErrors ==
    {NoError, ErrorWith({}), ErrorWith({"NameError", "TypeError"})}
        \cup {ErrorWith({e}) : e \in ErrorNames}
\* a TestResult of a caller-supplied CodeExecutionResponse
AnResult(passed, error, actual, expected) ==
    [passed |-> passed, error_message |-> error, actual_output |-> actual,
     expected_output |-> expected]
\* test results that differ in their error message
AnResults ==
    {AnResult(FALSE, e, None, <<"a">>) : e \in AnErrors}
        \cup {AnResult(TRUE, e, Some(<<"a">>), <<"a">>) :
                  e \in {NoError, ErrorWith({"NameError"})}}
AnResultSeqs == UNION {[1..n -> AnResults] : n \in 0..MaxAnResults}
\* actual_output: None, "", the expected text and another text
ActualOutputs == {None, Some(<<>>), Some(<<"a">>), Some(<<"b">>)}
\* test results that differ in their outputs
OutResults ==
    {AnResult(p, e, a, <<"a">>) :
        p \in BOOLEAN, e \in {NoError, ErrorWith({})}, a \in ActualOutputs}
        \cup {AnResult(FALSE, NoError, Some(<<"a">>), <<>>)}
OutResultSeqs == UNION {[1..n -> OutResults] : n \in 0..MaxAnResults}
\* passed_tests and total_tests are unvalidated integers
CountValues == -1..MaxCount
ExecutionResult(ok, total, passed, results) ==
    [success |-> ok, total_tests |-> total, passed_tests |-> passed,
     test_results |-> results]
\* StudentProfile.age: ge=8, le=18
Ages == {8, 10, 11, 18}

\* values before the step that computes them
NoSyntax ==
    [is_valid |-> FALSE, syntax_errors |-> <<>>, structure |-> {},
     complexity_score |-> -1]
NoLogic ==
    [tests_passed |-> 0, tests_failed |-> 0, logic_issues |-> <<>>,
     output_patterns |-> <<>>, execution_successful |-> FALSE]
NoStyle == [style_issues |-> <<>>, good_practices |-> <<>>, readability_score |-> 0]
\* a text by where it comes from and its length
Text(origin, len) == [origin |-> origin, len |-> len]
NoText == Text("none", 0)
NoFeedback ==
    [concept_mastery |-> {}, feedback |-> NoText, strengths |-> <<>>, improvements |-> <<>>,
     next_steps |-> <<>>, encouragement |-> NoText]
NoReport ==
    [overall_score |-> 0, syntax |-> NoSyntax, logic |-> NoLogic, style |-> NoStyle,
     personalized_feedback |-> NoText, adaptive_hints |-> <<>>, next_steps |-> <<>>,
     encouragement |-> NoText, areas_for_improvement |-> <<>>, strengths |-> <<>>,
     concept_mastery |-> {}]

\* ------------------------------------------------------- endpoint data
\* the keys of the dictionary analyze_student_code returns
ReportKeys ==
    {"overall_score", "concept_mastery", "code_quality", "personalized_feedback",
     "adaptive_hints", "next_steps", "encouragement", "areas_for_improvement", "strengths"}
\* the keys of the dictionary /analyze-code returns from `except Exception`
ErrorKeys == {"error", "overall_score", "adaptive_hints", "encouragement"}
\* a response of /analyze-code: the keys it has and their values
ApiResponse(keys, body) == [keys |-> keys, body |-> body]
NoApi == ApiResponse({}, NoReport)
\* no earlier call was made
NoCall == [done |-> FALSE, score |-> 0, llm |-> "idle"]

\* the keys of CURRICULUM_BY_AGE
AgeGroups == {"8-10", "11-13", "14-16"}
\* CURRICULUM_BY_AGE, cut to the first three blueprints of the first group;
\* position_in_curriculum is the index
Curriculum ==
    [g \in AgeGroups |->
        IF g = "8-10"
        THEN <<"computational_thinking_intro_8_10", "variables_intro_8_10",
               "print_fun_8_10">>
        ELSE <<>>]
KnownLessons == UNION {{Curriculum[g][k] : k \in 1..Len(Curriculum[g])} : g \in AgeGroups}
\* lesson ids: the blueprints and two ids that are none
LessonIds == KnownLessons \cup {"functions_intro_8_10", "no_such_lesson"}
\* an argument by its type: student_profile.age is an int, an age group a str
IntArg(n) == [type |-> "int", int |-> n, str |-> ""]
StrArg(t) == [type |-> "str", int |-> 0, str |-> t]
\* what a call gives: a value or an exception
Ok(v) == [raises |-> "none", value |-> v]
Raise(e) == [raises |-> e, value |-> ""]
\* None, where a lesson id is expected
NoLesson == ""
\* analysis["overall_score"]: both sides of every threshold main.py compares it with
Scores == {0, 49, 50, 69, 70, 79, 80, 89, 90, 100}
NoAnalysis == [done |-> FALSE, overall_score |-> 0]
Analysis(score) == [done |-> TRUE, overall_score |-> score]
NoInsights ==
    [present |-> FALSE, mastery_level |-> "", recommended_next_lesson |-> NoLesson,
     study_suggestions |-> ""]
SubResponse(error, execution, analysis, insights) ==
    [error |-> error, execution_result |-> execution, code_analysis |-> analysis,
     learning_insights |-> insights]
NoSubResponse == SubResponse(FALSE, "none", NoAnalysis, NoInsights)

\* ---------------------------------------------------- hint system data
HintTexts == {"h1", "h2", "h3"}
HintLists == UNION {[1..n -> HintTexts] : n \in 0..MaxHints}
\* Optional[str]
NoHint == [some |-> FALSE, text |-> ""]
SomeHint(h) == [some |-> TRUE, text |-> h]

\* ------------------------------------------------------------------ state
VARIABLES
    backend,          \* self.backend
    loop_ok,          \* the event loop implements subprocess spawning
    request,          \* the CodeExecutionRequest
    pc,               \* position of the task running execute_code
    i,                \* loop index of _execute_locally
    temp_file,        \* local temp_file: 0 while unbound, else a file name
    fs,               \* names of the temp files that exist
    created,          \* number of temp files created so far (names are 1..created)
    running,          \* test indices whose child process is running
    proc,             \* what communicate() / subprocess.run returned, until recorded
    outcome,          \* how the child of the current test case ended
    test_result,      \* local test_result
    test_results,     \* local test_results
    passed_tests,     \* local passed_tests
    overall_outputs,  \* local overall_outputs
    exc,              \* type name of the exception being handled or raised
    response,         \* the CodeExecutionResponse returned
    attempted,        \* test indices whose loop iteration began
    fault,            \* a spawn or temp-file fault happened
    file_fault,       \* a temp-file operation failed or the file was removed early
    fallback_warnings, \* "Async subprocess unsupported on this loop" warnings logged
    input_data,       \* _input_data of the prepared program
    input_index,      \* _input_index of the prepared program
    returned,         \* what the calls of input() returned, in call order
    stdin_reads,      \* reads of the real input stream by input()
    par_n,            \* two concurrent requests: number of test cases of each
    par_pc,           \* position of each request's task
    par_i,            \* loop index of each task
    par_temp_file,    \* local temp_file of each task: 0 while unbound
    par_exc,          \* exception each task is handling
    par_child,        \* what the child of each task did, "starting" before it opens its file
    par_turn,         \* the task running between two awaits, "none" when all are suspended
    par_fs,           \* names of the temp files that exist (shared directory)
    par_owner,        \* the task whose program each existing file holds
    par_test_results, \* local test_results of each task
    par_solo,         \* the test_results each task builds when it runs alone
    an_pc,            \* position of the task running analyze_student_code
    student_code,     \* its argument student_code
    execution_result, \* its argument execution_result
    student_profile,  \* its argument student_profile
    syntax_analysis,  \* local syntax_analysis
    logic_analysis,   \* local logic_analysis
    style_analysis,   \* local style_analysis
    llm,              \* state of the call self.llm.ainvoke(prompt)
    educational_feedback, \* local educational_feedback
    hints,            \* local hints
    report,           \* the dictionary analyze_student_code returns
    api_response,     \* what the /analyze-code endpoint returned
    first_call,       \* the score and collaborator outcome of an earlier identical call
    sub_pc,           \* position of the task running submit_code_with_analysis
    lesson_id,        \* its argument lesson_id
    sub_age,          \* its argument student_profile.age
    sub_execution,    \* its local execution_result
    sub_analysis,     \* its local analysis
    sub_calls,        \* the collaborator calls it made, in order
    sub_response,     \* the dictionary it returned
    hint_level,       \* HintSystem.hint_level
    available_hints,  \* HintSystem.available_hints
    hints_used,       \* HintSystem.hints_used
    hint_returns      \* what the calls of get_next_hint returned, in call order

execVars ==
    <<backend, loop_ok, request, pc, i, temp_file, fs, created, running, proc, outcome,
      test_result, test_results, passed_tests, overall_outputs, exc, response,
      attempted, fault, file_fault, fallback_warnings>>
inputVars == <<input_data, input_index, returned, stdin_reads>>
parVars ==
    <<par_n, par_pc, par_i, par_temp_file, par_exc, par_child, par_turn, par_fs,
      par_owner, par_test_results, par_solo>>
anVars ==
    <<an_pc, student_code, execution_result, student_profile, syntax_analysis,
      logic_analysis, style_analysis, llm, educational_feedback, hints, report,
      api_response, first_call>>
subVars ==
    <<sub_pc, lesson_id, sub_age, sub_execution, sub_analysis, sub_calls, sub_response>>
hintVars == <<hint_level, available_hints, hints_used, hint_returns>>
\* the variables the task of execute_code never touches
otherVars == <<inputVars, parVars, anVars, subVars, hintVars>>
vars == <<execVars, fallback_warnings, otherVars>>

N == Len(request.test_cases)
test_case == request.test_cases[i + 1]

\* ------------------------------------------------------------------ helpers
\* a passed_flag that leaves stderr out
PassedFlagWithoutStderr(actual, expected, stderr_str) == actual = expected

\* passed_flag = (actual_output == expected_output) and (not stderr_str)
PassedFlag(actual, expected, stderr_str) == (actual = expected) /\ (stderr_str = <<>>)

\* the async path: the TestResult of a child that completed, from the raw
\* captured bytes
CompletedResult(k, tc, out, err) ==
    [test_id |-> k,
     passed |-> PassedFlag(Strip(out), Strip(tc.expected_output), Strip(err)),
     input_data |-> OrNone(StripNL(tc.input)),
     expected_output |-> Strip(tc.expected_output),
     actual_output |-> Some(Strip(out)),
     error_message |-> StderrMsg(Strip(err))]

\* the async path: the TestResult of asyncio.TimeoutError
TimedOutResult(k, tc, secs) ==
    [test_id |-> k, passed |-> FALSE, input_data |-> None,
     expected_output |-> tc.expected_output, actual_output |-> None,
     error_message |-> TimeoutMsg(secs)]

\* the TestResult `except Exception as e` of the loop body builds
ExecErrorResult(k, tc, etype) ==
    [test_id |-> k, passed |-> FALSE, input_data |-> None,
     expected_output |-> tc.expected_output, actual_output |-> None,
     error_message |-> ExecErrMsg(etype)]

\* a fallback result that keeps the captured stdout untrimmed
ThreadResultUntrimmed(k, tc, out, err) ==
    [test_id |-> k,
     passed |-> PassedFlag(out, Strip(tc.expected_output), Strip(err)),
     input_data |-> OrNone(StripNL(tc.input)),
     expected_output |-> Strip(tc.expected_output),
     actual_output |-> Some(out),
     error_message |-> StderrMsg(Strip(err))]

\* the thread fallback: passed_flag = (stdout_text == expected_output) and
\* (not stderr_text)
ThreadPassedFlag(stdout_text, expected, stderr_text) ==
    (stdout_text = expected) /\ (stderr_text = <<>>)

\* the thread fallback: the TestResult of a CompletedProcess
ThreadCompletedResult(k, tc, out, err) ==
    [test_id |-> k,
     passed |-> ThreadPassedFlag(Strip(out), Strip(tc.expected_output), Strip(err)),
     input_data |-> OrNone(StripNL(tc.input)),
     expected_output |-> Strip(tc.expected_output),
     actual_output |-> Some(Strip(out)),
     error_message |-> StderrMsg(Strip(err))]

\* the thread fallback: the TestResult of subprocess.TimeoutExpired
ThreadTimedOutResult(k, tc, secs) ==
    [test_id |-> k, passed |-> FALSE, input_data |-> None,
     expected_output |-> tc.expected_output, actual_output |-> None,
     error_message |-> TimeoutMsg(secs)]

\* the thread fallback: the TestResult of `except Exception as fe`
ThreadExecErrorResult(k, tc, etype) ==
    [test_id |-> k, passed |-> FALSE, input_data |-> None,
     expected_output |-> tc.expected_output, actual_output |-> None,
     error_message |-> ExecErrMsg(etype)]

\* a counter that goes up for every completed child
CountEvery(passed, tr) == passed + 1

\* if test_result.passed: passed_tests += 1
CountPassed(passed, tr) == IF tr.passed THEN passed + 1 ELSE passed

\* an aggregation that collects no output
CollectNothing(outputs, tr) == outputs

\* if test_result.actual_output: overall_outputs.append(test_result.actual_output)
CollectOutput(outputs, tr) ==
    IF tr.actual_output.val # <<>> THEN Append(outputs, tr.actual_output.val)
    ELSE outputs

\* a timeout path that leaves the child alone
KillProcessSkipped(procs, k) == procs

\* process.kill() / the kill subprocess.run does when its timeout expires
KillProcess(procs, k) == procs \ {k}

\* [o for o in overall_outputs if o]
NonEmpty(s) == s # <<>>
\* [tr.error_message for tr in test_results if tr.error_message]
RECURSIVE ErrorMessages(_)
ErrorMessages(results) ==
    IF results = <<>> THEN <<>>
    ELSE (IF Head(results).error_message.kind = "none" THEN <<>>
          ELSE <<Head(results).error_message>>) \o ErrorMessages(Tail(results))

\* success=len(test_results) > 0
Success(results) == Len(results) > 0

\* the CodeExecutionResponse built at the end of _execute_locally
BuildResponse(req, results, passed, outputs) ==
    [success |-> Success(results),
     total_tests |-> Len(req.test_cases),
     passed_tests |-> passed,
     test_results |-> results,
     overall_output |-> OrNone(JoinNL(SelectSeq(outputs, NonEmpty))),
     runtime_errors |-> ErrorMessages(results)]

\* what a child may write and how it may exit, for a request of n test cases
ChildStdout(n) == Strs(OutChars, LenBound(n, MaxLen))
ChildStderr(n) == Strs(ErrChars, LenBound(n, MaxErrLen))

\* ------------------------------------------------------------------ Init
InputIdle ==
    /\ input_data = <<>>
    /\ input_index = 0
    /\ returned = <<>>
    /\ stdin_reads = 0

\* no concurrent pair of requests is running
ParIdle ==
    /\ par_n = [t \in ParTasks |-> 0]
    /\ par_pc = [t \in ParTasks |-> "returned"]
    /\ par_i = [t \in ParTasks |-> 0]
    /\ par_temp_file = [t \in ParTasks |-> 0]
    /\ par_exc = [t \in ParTasks |-> "none"]
    /\ par_child = [t \in ParTasks |-> "none"]
    /\ par_turn = "none"
    /\ par_fs = {}
    /\ par_owner = [n \in ParNames |-> "none"]
    /\ par_test_results = [t \in ParTasks |-> <<>>]
    /\ par_solo = [t \in ParTasks |-> <<>>]

\* analyze_student_code(code, result, profile) is about to run
AnStart(code, result, profile) ==
    /\ an_pc = "syntax"
    /\ student_code = code
    /\ execution_result = result
    /\ student_profile = profile
    /\ syntax_analysis = NoSyntax
    /\ logic_analysis = NoLogic
    /\ style_analysis = NoStyle
    /\ llm = "idle"
    /\ educational_feedback = NoFeedback
    /\ hints = <<>>
    /\ report = NoReport
    /\ api_response = NoApi
    /\ first_call = NoCall

\* no analysis is running
AnIdle ==
    /\ an_pc = "idle"
    /\ student_code = ParsedCode(<<>>, <<>>)
    /\ execution_result = ExecutionResult(FALSE, 0, 0, <<>>)
    /\ student_profile = [age |-> 8]
    /\ syntax_analysis = NoSyntax
    /\ logic_analysis = NoLogic
    /\ style_analysis = NoStyle
    /\ llm = "idle"
    /\ educational_feedback = NoFeedback
    /\ hints = <<>>
    /\ report = NoReport
    /\ api_response = NoApi
    /\ first_call = NoCall

\* submit_code_with_analysis(lesson, age) is about to run
SubStart(lesson, age) ==
    /\ sub_pc = "execute"
    /\ lesson_id = lesson
    /\ sub_age = age
    /\ sub_execution = "none"
    /\ sub_analysis = NoAnalysis
    /\ sub_calls = <<>>
    /\ sub_response = NoSubResponse

\* no submission is running
SubIdle ==
    /\ sub_pc = "idle"
    /\ lesson_id = "no_such_lesson"
    /\ sub_age = 8
    /\ sub_execution = "none"
    /\ sub_analysis = NoAnalysis
    /\ sub_calls = <<>>
    /\ sub_response = NoSubResponse

\* HintSystem(available_hints=available): hint_level 0, hints_used []
HintStart(available) ==
    /\ hint_level = 0
    /\ available_hints = available
    /\ hints_used = <<>>
    /\ hint_returns = <<>>

\* a HintSystem without hints that is never called
HintIdle == HintStart(<<>>)

ExecStart(b, l, r) ==
    /\ backend = b
    /\ loop_ok = l
    /\ request = r
    /\ pc = "start"
    /\ i = 0
    /\ temp_file = 0
    /\ fs = {}
    /\ created = 0
    /\ running = {}
    /\ proc = NoProc
    /\ outcome = "none"
    /\ test_result = NoResult
    /\ test_results = <<>>
    /\ passed_tests = 0
    /\ overall_outputs = <<>>
    /\ exc = "none"
    /\ response = NoResponse
    /\ attempted = {}
    /\ fault = FALSE
    /\ file_fault = FALSE
    /\ fallback_warnings = 0

\* a CodeExecutor was constructed and execute_code(request) is about to run
Init ==
    /\ \E b \in Backends, l \in BOOLEAN, r \in Requests : ExecStart(b, l, r)
    /\ InputIdle
    /\ ParIdle
    /\ AnIdle
    /\ SubIdle
    /\ HintIdle

\* ------------------------------------------------------------------ actions
\* an exception of type etype reaches `except Exception as e` of the loop body
ToHandler(etype) ==
    /\ pc' = "handler"
    /\ exc' = etype

\* execute_code: dispatch on self.backend
ExecuteCode ==
    /\ pc = "start"
    /\ IF backend = "local"
       THEN pc' = "loop" /\ exc' = exc
       ELSE pc' = "raised" /\ exc' = "ValueError"
    /\ UNCHANGED <<backend, loop_ok, request, i, temp_file, fs, created, running, proc,
                   outcome, test_result, test_results, passed_tests, overall_outputs,
                   response, attempted, fault, file_fault, fallback_warnings, otherVars>>

\* NamedTemporaryFile(...), f.write(prepared_code), temp_file = f.name
CreateTempFile ==
    /\ pc = "loop" /\ i < N
    /\ attempted' = attempted \cup {i}
    /\ outcome' = "none"
    /\ created' = created + 1
    /\ fs' = fs \cup {created + 1}
    /\ temp_file' = created + 1
    /\ pc' = "spawn"
    /\ UNCHANGED <<backend, loop_ok, request, i, running, proc, test_result, test_results,
                   passed_tests, overall_outputs, exc, response, fault, file_fault, fallback_warnings, otherVars>>

\* NamedTemporaryFile(...) raises: no file, temp_file keeps its old binding
CreateTempFileFails ==
    /\ pc = "loop" /\ i < N
    /\ attempted' = attempted \cup {i}
    /\ outcome' = "none"
    /\ fault' = TRUE
    /\ file_fault' = TRUE
    /\ ToHandler("OSError")
    /\ UNCHANGED <<backend, loop_ok, request, i, temp_file, fs, created, running, proc,
                   test_result, test_results, passed_tests, overall_outputs, response,
                   fallback_warnings, otherVars>>

\* f.write(prepared_code) raises: the file exists (delete=False) and temp_file
\* keeps its old binding
WriteFails ==
    /\ pc = "loop" /\ i < N
    /\ attempted' = attempted \cup {i}
    /\ outcome' = "none"
    /\ created' = created + 1
    /\ fs' = fs \cup {created + 1}
    /\ fault' = TRUE
    /\ file_fault' = TRUE
    /\ ToHandler("OSError")
    /\ UNCHANGED <<backend, loop_ok, request, i, temp_file, running, proc, test_result,
                   test_results, passed_tests, overall_outputs, response, fallback_warnings, otherVars>>

\* asyncio.create_subprocess_exec returns a process
SpawnAsync ==
    /\ pc = "spawn" /\ loop_ok
    /\ running' = running \cup {i}
    /\ pc' = "awaiting"
    /\ UNCHANGED <<backend, loop_ok, request, i, temp_file, fs, created, proc, outcome,
                   test_result, test_results, passed_tests, overall_outputs, exc,
                   response, attempted, fault, file_fault, fallback_warnings, otherVars>>

\* asyncio.create_subprocess_exec raises NotImplementedError
SpawnAsyncUnsupported ==
    /\ pc = "spawn" /\ ~loop_ok
    /\ fallback_warnings' = fallback_warnings + 1
    /\ pc' = "fallback"
    /\ UNCHANGED <<backend, loop_ok, request, i, temp_file, fs, created, running, proc,
                   outcome, test_result, test_results, passed_tests, overall_outputs, exc,
                   response, attempted, fault, file_fault, otherVars>>

\* asyncio.create_subprocess_exec raises OSError
SpawnAsyncFails ==
    /\ pc = "spawn" /\ loop_ok
    /\ fault' = TRUE
    /\ outcome' = "error"
    /\ ToHandler("OSError")
    /\ UNCHANGED <<backend, loop_ok, request, i, temp_file, fs, created, running, proc,
                   test_result, test_results, passed_tests, overall_outputs, response,
                   attempted, file_fault, fallback_warnings, otherVars>>

\* the child exited after writing out and err; tr is the TestResult the
\* strategy in use builds from them
Completed(tr, out, err, rc, del) ==
    /\ running' = running \ {i}
    /\ proc' = [done |-> TRUE, stdout |-> out, stderr |-> err, returncode |-> rc]
    /\ fs' = IF del THEN fs \ {temp_file} ELSE fs
    /\ outcome' = "completed"
    /\ IF test_case.has_expected
       THEN /\ test_result' = tr
            /\ passed_tests' = CountPassed(passed_tests, tr)
            /\ overall_outputs' = CollectOutput(overall_outputs, tr)
            /\ pc' = "append"
            /\ exc' = exc
       ELSE /\ ToHandler("KeyError")
            /\ UNCHANGED <<test_result, passed_tests, overall_outputs>>
    /\ UNCHANGED <<backend, loop_ok, request, i, temp_file, created, test_results,
                   response, attempted, fault, file_fault, fallback_warnings, otherVars>>

\* wait_for(process.communicate(), timeout) returns within the timeout
CommunicateReturns ==
    /\ pc = "awaiting"
    /\ request.timeout_seconds > 0
    /\ \E out \in ChildStdout(N), err \in ChildStderr(N), rc \in ExitCodes, del \in BOOLEAN :
           Completed(CompletedResult(i, test_case, out, err), out, err, rc, del)

\* wait_for raises asyncio.TimeoutError; process.kill()
TimeoutFires ==
    /\ pc = "awaiting"
    /\ running' = KillProcess(running, i)
    /\ outcome' = "timeout"
    /\ pc' = "drain"
    /\ UNCHANGED <<backend, loop_ok, request, i, temp_file, fs, created, proc,
                   test_result, test_results, passed_tests, overall_outputs, exc,
                   response, attempted, fault, file_fault, fallback_warnings, otherVars>>

\* tr, the TestResult of a timeout, is built; test_case["expected_output"]
\* raises KeyError when the key is missing
TimedOut(tr) ==
    /\ IF test_case.has_expected
       THEN /\ test_result' = tr
            /\ pc' = "append"
            /\ exc' = exc
       ELSE /\ ToHandler("KeyError")
            /\ test_result' = test_result

\* await process.communicate() after the kill returns
DrainReturns ==
    /\ pc = "drain"
    /\ TimedOut(TimedOutResult(i, test_case, request.timeout_seconds))
    /\ UNCHANGED <<backend, loop_ok, request, i, temp_file, fs, created, running, proc,
                   outcome, test_results, passed_tests, overall_outputs, response,
                   attempted, fault, file_fault, fallback_warnings, otherVars>>

\* the worker thread of asyncio.to_thread(subprocess.run, ...) spawned the child
FallbackSpawn ==
    /\ pc = "fallback"
    /\ running' = running \cup {i}
    /\ pc' = "thread"
    /\ UNCHANGED <<backend, loop_ok, request, i, temp_file, fs, created, proc, outcome,
                   test_result, test_results, passed_tests, overall_outputs, exc,
                   response, attempted, fault, file_fault, fallback_warnings, otherVars>>

\* subprocess.run raises OSError: `except Exception as fe` builds the result
FallbackSpawnFails ==
    /\ pc = "fallback"
    /\ fault' = TRUE
    /\ outcome' = "error"
    /\ IF test_case.has_expected
       THEN /\ test_result' = ThreadExecErrorResult(i, test_case, "OSError")
            /\ pc' = "append"
            /\ exc' = exc
       ELSE /\ ToHandler("KeyError")
            /\ test_result' = test_result
    /\ UNCHANGED <<backend, loop_ok, request, i, temp_file, fs, created, running, proc,
                   test_results, passed_tests, overall_outputs, response, attempted,
                   file_fault, fallback_warnings, otherVars>>

\* subprocess.run returns a CompletedProcess within the timeout
ThreadReturns ==
    /\ pc = "thread"
    /\ request.timeout_seconds > 0
    /\ \E out \in ChildStdout(N), err \in ChildStderr(N), rc \in ExitCodes, del \in BOOLEAN :
           Completed(ThreadCompletedResult(i, test_case, out, err), out, err, rc, del)

\* subprocess.run kills the child, waits for it and raises TimeoutExpired
ThreadTimeout ==
    /\ pc = "thread"
    /\ running' = KillProcess(running, i)
    /\ outcome' = "timeout"
    /\ TimedOut(ThreadTimedOutResult(i, test_case, request.timeout_seconds))
    /\ UNCHANGED <<backend, loop_ok, request, i, temp_file, fs, created, proc,
                   test_results, passed_tests, overall_outputs, response, attempted,
                   fault, file_fault, fallback_warnings, otherVars>>

\* test_results.append(test_result)
AppendResult ==
    /\ pc = "append"
    /\ test_results' = Append(test_results, test_result)
    /\ pc' = "unlink"
    /\ proc' = NoProc
    /\ UNCHANGED <<backend, loop_ok, request, i, temp_file, fs, created, running,
                   outcome, test_result, passed_tests, overall_outputs, exc, response,
                   attempted, fault, file_fault, fallback_warnings, otherVars>>

\* os.unlink(temp_file) succeeds; the loop goes on
Unlink ==
    /\ pc = "unlink"
    /\ temp_file \in fs
    /\ fs' = fs \ {temp_file}
    /\ i' = i + 1
    /\ pc' = "loop"
    /\ UNCHANGED <<backend, loop_ok, request, temp_file, created, running, proc, outcome,
                   test_result, test_results, passed_tests, overall_outputs, exc,
                   response, attempted, fault, file_fault, fallback_warnings, otherVars>>

\* os.unlink(temp_file) raises: FileNotFoundError when the file is gone (the
\* child removed it), PermissionError otherwise
UnlinkFails ==
    /\ pc = "unlink"
    /\ fault' = TRUE
    /\ file_fault' = TRUE
    /\ ToHandler(IF temp_file \in fs THEN "PermissionError" ELSE "FileNotFoundError")
    /\ UNCHANGED <<backend, loop_ok, request, i, temp_file, fs, created, running, proc,
                   outcome, test_result, test_results, passed_tests, overall_outputs,
                   response, attempted, fallback_warnings, otherVars>>

\* `except Exception as e` of the loop body: append a failed TestResult, then
\* delete temp_file if it is bound and exists, swallowing a failure of that
Handler ==
    /\ pc = "handler"
    /\ IF test_case.has_expected
       THEN /\ test_results' = Append(test_results, ExecErrorResult(i, test_case, exc))
            /\ IF temp_file # 0 /\ temp_file \in fs
               THEN \E ok \in BOOLEAN :
                        /\ fs' = IF ok THEN fs \ {temp_file} ELSE fs
                        /\ file_fault' = (file_fault \/ ~ok)
               ELSE fs' = fs /\ file_fault' = file_fault
            /\ i' = i + 1
            /\ pc' = "loop"
            /\ exc' = "none"
       ELSE \* test_case["expected_output"] raises KeyError inside the handler
            /\ pc' = "raised"
            /\ exc' = "KeyError"
            /\ UNCHANGED <<test_results, fs, i, file_fault>>
    /\ UNCHANGED <<backend, loop_ok, request, temp_file, created, running, proc, outcome,
                   test_result, passed_tests, overall_outputs, response, attempted, fault,
                   fallback_warnings, otherVars>>

\* the loop is over: build and return the CodeExecutionResponse
Return ==
    /\ pc = "loop" /\ i = N
    /\ response' = BuildResponse(request, test_results, passed_tests, overall_outputs)
    /\ pc' = "returned"
    /\ UNCHANGED <<backend, loop_ok, request, i, temp_file, fs, created, running, proc,
                   outcome, test_result, test_results, passed_tests, overall_outputs, exc,
                   attempted, fault, file_fault, fallback_warnings, otherVars>>

\* the task is cancelled while suspended at an await: CancelledError is a
\* BaseException, so neither `except asyncio.TimeoutError` nor
\* `except Exception` runs and the task unwinds at once
Cancel ==
    /\ pc \in {"awaiting", "drain", "thread"}
    /\ pc' = "cancelled"
    /\ exc' = "CancelledError"
    /\ UNCHANGED <<backend, loop_ok, request, i, temp_file, fs, created, running, proc,
                   outcome, test_result, test_results, passed_tests, overall_outputs,
                   response, attempted, fault, file_fault, fallback_warnings, otherVars>>

\* every step of the task itself
NextRun ==
    \/ ExecuteCode
    \/ CreateTempFile
    \/ CreateTempFileFails
    \/ WriteFails
    \/ SpawnAsync
    \/ SpawnAsyncUnsupported
    \/ SpawnAsyncFails
    \/ CommunicateReturns
    \/ TimeoutFires
    \/ DrainReturns
    \/ FallbackSpawn
    \/ FallbackSpawnFails
    \/ ThreadReturns
    \/ ThreadTimeout
    \/ AppendResult
    \/ Unlink
    \/ UnlinkFails
    \/ Handler
    \/ Return

Next == NextRun \/ Cancel

Spec == Init /\ [][Next]_vars

\* the task alone, never cancelled, and it is scheduled while it can step
\* (the event loop resumes a ready task; the timeout timer fires)
FairSpec == Init /\ [][NextRun]_vars /\ WF_vars(NextRun)

\* ------------------------------------------------------------------ input()
\* _prepare_code_with_input: the globals the prepared program starts with
\* (lines = input_data.split('\n') if input_data else [])
prepare_code_with_input(text) ==
    [data |-> IF text # <<>> THEN SplitNL(text) ELSE <<>>, index |-> 0]

\* an input() that returns the queued value without advancing the index
InputNoAdvance(data, index) ==
    IF index < Len(data)
    THEN [result |-> data[index + 1], index |-> index, reads |-> 0]
    ELSE [result |-> <<>>, index |-> index, reads |-> 0]

\* the injected def input(prompt=""): the value returned, the new
\* _input_index and the number of reads of the real input stream
InputWrapper(data, index) ==
    IF index < Len(data)
    THEN [result |-> data[index + 1], index |-> index + 1, reads |-> 0]
    ELSE [result |-> <<>>, index |-> index, reads |-> 0]

\* the prepared program of some input text is about to run
InitInput ==
    /\ \E text \in Strs(InputChars, MaxInputLen) :
           /\ input_data = prepare_code_with_input(text).data
           /\ input_index = prepare_code_with_input(text).index
    /\ returned = <<>>
    /\ stdin_reads = 0
    /\ ExecStart("local", TRUE, [test_cases |-> <<>>, timeout_seconds |-> 1])
    /\ ParIdle
    /\ AnIdle
    /\ SubIdle
    /\ HintIdle

\* the program calls input()
InputCall ==
    /\ Len(returned) < MaxCalls
    /\ LET r == InputWrapper(input_data, input_index)
       IN  /\ returned' = Append(returned, r.result)
           /\ input_index' = r.index
           /\ stdin_reads' = stdin_reads + r.reads
    /\ UNCHANGED <<input_data, execVars, parVars, anVars, subVars, hintVars>>

NextInput == InputCall

SpecInput == InitInput /\ [][NextInput]_vars

\* ------------------------------------------------------ concurrent requests
\* the outcome of running `python temp_file` for task t: its own program
\* ran, another request's program ran, or the file could not be opened
ChildOf(t, name, files, owner) ==
    IF name \notin files THEN "missing"
    ELSE IF owner[name] = t THEN "ok" ELSE "foreign"

\* if 'temp_file' in locals() and os.path.exists(temp_file): os.unlink(temp_file)
HandlerCleanup(name, files) ==
    IF name # 0 /\ name \in files THEN files \ {name} ELSE files

\* a scheduler that may switch tasks anywhere
MayRunAnywhere(turn, t) == TRUE

\* tasks of one event loop: a task runs from one await to the next without
\* another task running in between (the awaits are create_subprocess_exec,
\* wait_for(communicate) and to_thread)
MayRun(turn, t) == turn \in {"none", t}

\* the owners of the files left after a deletion
OwnersOf(files, owner) == [n \in ParNames |-> IF n \in files THEN owner[n] ELSE "none"]

\* two execute_code calls are about to run on the same event loop
InitPar ==
    /\ par_n \in [ParTasks -> 1..MaxParTests]
    /\ par_pc = [t \in ParTasks |-> "loop"]
    /\ par_i = [t \in ParTasks |-> 0]
    /\ par_temp_file = [t \in ParTasks |-> 0]
    /\ par_exc = [t \in ParTasks |-> "none"]
    /\ par_child = [t \in ParTasks |-> "none"]
    /\ par_turn = "none"
    /\ par_fs = {}
    /\ par_owner = [n \in ParNames |-> "none"]
    /\ par_test_results = [t \in ParTasks |-> <<>>]
    /\ par_solo = [t \in ParTasks |-> <<>>]
    /\ ExecStart("local", TRUE, [test_cases |-> <<>>, timeout_seconds |-> 1])
    /\ InputIdle
    /\ AnIdle
    /\ SubIdle
    /\ HintIdle

\* task t: NamedTemporaryFile creates a file named n, f.write, temp_file = f.name
ParCreateTempFile(t, n) ==
    /\ MayRun(par_turn, t)
    /\ par_pc[t] = "loop" /\ par_i[t] < par_n[t]
    /\ n \notin par_fs
    /\ par_fs' = par_fs \cup {n}
    /\ par_owner' = [par_owner EXCEPT ![n] = t]
    /\ par_temp_file' = [par_temp_file EXCEPT ![t] = n]
    /\ par_pc' = [par_pc EXCEPT ![t] = "spawn"]
    /\ par_turn' = t
    /\ UNCHANGED <<par_n, par_i, par_exc, par_child, par_test_results, par_solo,
                   execVars, inputVars, anVars, subVars, hintVars>>

\* task t: NamedTemporaryFile raises; temp_file keeps its old binding
ParCreateTempFileFails(t) ==
    /\ MayRun(par_turn, t)
    /\ par_pc[t] = "loop" /\ par_i[t] < par_n[t]
    /\ par_pc' = [par_pc EXCEPT ![t] = "handler"]
    /\ par_exc' = [par_exc EXCEPT ![t] = "OSError"]
    /\ par_solo' = [par_solo EXCEPT ![t] = Append(@, "OSError")]
    /\ par_turn' = t
    /\ UNCHANGED <<par_n, par_i, par_temp_file, par_child, par_fs, par_owner,
                   par_test_results, execVars, inputVars, anVars, subVars, hintVars>>

\* task t: the file named n is created (delete=False) but f.write raises;
\* temp_file keeps its old binding
ParWriteFails(t, n) ==
    /\ MayRun(par_turn, t)
    /\ par_pc[t] = "loop" /\ par_i[t] < par_n[t]
    /\ n \notin par_fs
    /\ par_fs' = par_fs \cup {n}
    /\ par_owner' = [par_owner EXCEPT ![n] = t]
    /\ par_pc' = [par_pc EXCEPT ![t] = "handler"]
    /\ par_exc' = [par_exc EXCEPT ![t] = "OSError"]
    /\ par_solo' = [par_solo EXCEPT ![t] = Append(@, "OSError")]
    /\ par_turn' = t
    /\ UNCHANGED <<par_n, par_i, par_temp_file, par_child, par_test_results,
                   execVars, inputVars, anVars, subVars, hintVars>>

\* task t: await create_subprocess_exec(sys.executable, temp_file), then
\* await wait_for(communicate): the child is started and the task suspends
ParSpawn(t) ==
    /\ MayRun(par_turn, t)
    /\ par_pc[t] = "spawn"
    /\ par_child' = [par_child EXCEPT ![t] = "starting"]
    /\ par_pc' = [par_pc EXCEPT ![t] = "awaiting"]
    /\ par_turn' = "none"
    /\ UNCHANGED <<par_n, par_i, par_temp_file, par_exc, par_fs, par_owner,
                   par_test_results, par_solo, execVars, inputVars, anVars, subVars, hintVars>>

\* the child of task t opens its program file, runs and exits
ParChildRuns(t) ==
    /\ par_child[t] = "starting"
    /\ par_child' =
           [par_child EXCEPT ![t] = ChildOf(t, par_temp_file[t], par_fs, par_owner)]
    /\ UNCHANGED <<par_n, par_pc, par_i, par_temp_file, par_exc, par_turn, par_fs,
                   par_owner, par_test_results, par_solo, execVars, inputVars, anVars, subVars, hintVars>>

\* task t: communicate() returns; the TestResult is built and appended
ParCommunicateReturns(t) ==
    /\ MayRun(par_turn, t)
    /\ par_pc[t] = "awaiting"
    /\ par_child[t] \notin {"none", "starting"}
    /\ par_test_results' = [par_test_results EXCEPT ![t] = Append(@, par_child[t])]
    /\ par_solo' = [par_solo EXCEPT ![t] = Append(@, "ok")]
    /\ par_child' = [par_child EXCEPT ![t] = "none"]
    /\ par_pc' = [par_pc EXCEPT ![t] = "unlink"]
    /\ par_turn' = t
    /\ UNCHANGED <<par_n, par_i, par_temp_file, par_exc, par_fs, par_owner,
                   execVars, inputVars, anVars, subVars, hintVars>>

\* task t: os.unlink(temp_file); FileNotFoundError when the file is gone
ParUnlink(t) ==
    /\ MayRun(par_turn, t)
    /\ par_pc[t] = "unlink"
    /\ IF par_temp_file[t] \in par_fs
       THEN /\ par_fs' = par_fs \ {par_temp_file[t]}
            /\ par_owner' = OwnersOf(par_fs', par_owner)
            /\ par_i' = [par_i EXCEPT ![t] = @ + 1]
            /\ par_pc' = [par_pc EXCEPT ![t] = "loop"]
            /\ par_exc' = par_exc
       ELSE /\ par_pc' = [par_pc EXCEPT ![t] = "handler"]
            /\ par_exc' = [par_exc EXCEPT ![t] = "FileNotFoundError"]
            /\ UNCHANGED <<par_fs, par_owner, par_i>>
    /\ par_turn' = t
    /\ UNCHANGED <<par_n, par_temp_file, par_child, par_test_results, par_solo,
                   execVars, inputVars, anVars, subVars, hintVars>>

\* task t: `except Exception as e` appends a failed TestResult and deletes
\* temp_file if it is bound and exists
ParHandler(t) ==
    /\ MayRun(par_turn, t)
    /\ par_pc[t] = "handler"
    /\ par_test_results' = [par_test_results EXCEPT ![t] = Append(@, par_exc[t])]
    /\ par_fs' = HandlerCleanup(par_temp_file[t], par_fs)
    /\ par_owner' = OwnersOf(par_fs', par_owner)
    /\ par_i' = [par_i EXCEPT ![t] = @ + 1]
    /\ par_pc' = [par_pc EXCEPT ![t] = "loop"]
    /\ par_exc' = [par_exc EXCEPT ![t] = "none"]
    /\ par_turn' = t
    /\ UNCHANGED <<par_n, par_temp_file, par_child, par_solo, execVars, inputVars, anVars, subVars, hintVars>>

\* task t: the loop is over and the response is returned
ParReturn(t) ==
    /\ MayRun(par_turn, t)
    /\ par_pc[t] = "loop" /\ par_i[t] = par_n[t]
    /\ par_pc' = [par_pc EXCEPT ![t] = "returned"]
    /\ par_turn' = "none"
    /\ UNCHANGED <<par_n, par_i, par_temp_file, par_exc, par_child, par_fs, par_owner,
                   par_test_results, par_solo, execVars, inputVars, anVars, subVars, hintVars>>

NextPar ==
    \E t \in ParTasks :
        \/ \E n \in ParNames : ParCreateTempFile(t, n)
        \/ ParCreateTempFileFails(t)
        \/ \E n \in ParNames : ParWriteFails(t, n)
        \/ ParSpawn(t)
        \/ ParChildRuns(t)
        \/ ParCommunicateReturns(t)
        \/ ParUnlink(t)
        \/ ParHandler(t)
        \/ ParReturn(t)

SpecPar == InitPar /\ [][NextPar]_vars

\* ------------------------------------------------------------ analyzer
\* dict.get(key, default) of a dictionary held as a set of <<key, value>>
Get(dict, key, default) ==
    IF \E kv \in dict : kv[1] = key
    THEN (CHOOSE kv \in dict : kv[1] = key)[2]
    ELSE default

\* iter_child_nodes: the children of node k, in source order
Children(tree, k) ==
    LET isChild(j) == tree[j].parent = k
        RECURSIVE from(_)
        from(j) == IF j > Len(tree) THEN <<>>
                   ELSE (IF isChild(j) THEN <<j>> ELSE <<>>) \o from(j + 1)
    IN  from(1)

\* a walk that stops at the statements of the module body
WalkTopLevel(tree, todo) == todo \o Children(tree, 0)

\* ast.walk: breadth-first, the node itself first
RECURSIVE Walk(_, _)
Walk(tree, todo) ==
    IF todo = <<>> THEN <<>>
    ELSE <<Head(todo)>> \o Walk(tree, Tail(todo) \o Children(tree, Head(todo)))

\* len([n for n in ast.walk(tree) if isinstance(n, types)])
CountNodes(tree, types) ==
    Len(SelectSeq(Walk(tree, <<0>>), LAMBDA k : TypeOf(tree, k) \in types))

\* _calculate_complexity
RECURSIVE ComplexityOver(_, _, _)
ComplexityOver(tree, nodes, complexity) ==
    IF nodes = <<>> THEN complexity
    ELSE LET node == Head(nodes)
         IN  ComplexityOver(tree, Tail(nodes),
                 IF TypeOf(tree, node) \in {"If", "While", "For", "ExceptHandler"}
                 THEN complexity + 1
                 ELSE IF TypeOf(tree, node) = "BoolOp"
                      THEN complexity + tree[node].values - 1
                      ELSE complexity)
calculate_complexity(tree) == ComplexityOver(tree, Walk(tree, <<0>>), 1)

\* the keys of analysis["structure"] after a successful parse
StructureKeys ==
    {"functions_defined", "classes_defined", "loops_used", "conditionals_used",
     "variables_assigned", "imports_used"}

\* _analyze_syntax
analyze_syntax(code) ==
    IF code.parsed
    THEN [is_valid |-> TRUE,
          syntax_errors |-> <<>>,
          structure |->
              {<<"functions_defined", CountNodes(code.tree, {"FunctionDef"})>>,
               <<"classes_defined", CountNodes(code.tree, {"ClassDef"})>>,
               <<"loops_used", CountNodes(code.tree, {"For", "While"})>>,
               <<"conditionals_used", CountNodes(code.tree, {"If"})>>,
               <<"variables_assigned", CountNodes(code.tree, {"Assign"})>>,
               <<"imports_used", CountNodes(code.tree, {"Import", "ImportFrom"})>>},
          complexity_score |-> calculate_complexity(code.tree)]
    ELSE [is_valid |-> FALSE,
          syntax_errors |-> <<[lineno |-> code.lineno, msg |-> "msg"]>>,
          structure |-> {},
          complexity_score |-> 0]

\* the label of one failed test: if / elif / elif on the error message
IssuesOf(test) ==
    IF ~test.error_message.present THEN <<>>
    ELSE IF "NameError" \in test.error_message.names
         THEN <<"Variable not defined before use">>
    ELSE IF "TypeError" \in test.error_message.names
         THEN <<"Incorrect data type usage">>
    ELSE IF "IndentationError" \in test.error_message.names
         THEN <<"Incorrect indentation">>
    ELSE <<>>

RECURSIVE LogicIssues(_)
LogicIssues(failed) ==
    IF failed = <<>> THEN <<>> ELSE IssuesOf(Head(failed)) \o LogicIssues(Tail(failed))

\* the truth value of an Optional[str] and of a str
Truthy(opt) == opt.some /\ opt.val # <<>>
\* f"Expected '{expected_output}' but got '{actual_output}'"
Pattern(expected, actual) == [expected |-> expected, actual |-> actual]

\* the output pattern of one failed test
PatternsOf(test) ==
    IF Truthy(test.actual_output) /\ test.expected_output # <<>>
       /\ test.actual_output.val # test.expected_output
    THEN <<Pattern(test.expected_output, test.actual_output.val)>>
    ELSE <<>>

RECURSIVE OutputPatterns(_)
OutputPatterns(failed) ==
    IF failed = <<>> THEN <<>>
    ELSE PatternsOf(Head(failed)) \o OutputPatterns(Tail(failed))

\* an analysis that looks at every test, passed or not
analyze_logic_every_test(result) ==
    [tests_passed |-> result.passed_tests,
     tests_failed |-> Len(SelectSeq(result.test_results, LAMBDA t : ~t.passed)),
     logic_issues |-> LogicIssues(result.test_results),
     output_patterns |-> OutputPatterns(result.test_results),
     execution_successful |-> result.success]

\* _analyze_logic
analyze_logic(result) ==
    LET failed_tests == SelectSeq(result.test_results, LAMBDA t : ~t.passed)
    IN  [tests_passed |-> result.passed_tests,
         tests_failed |-> Len(failed_tests),
         logic_issues |-> LogicIssues(failed_tests),
         output_patterns |-> OutputPatterns(failed_tests),
         execution_successful |-> result.success]

Min(a, b) == IF a <= b THEN a ELSE b
Max(a, b) == IF a >= b THEN a ELSE b

\* the style issues and the comment practices of the lines from line k on
RECURSIVE StyleIssues(_, _)
StyleIssues(lines, k) ==
    IF k > Len(lines) THEN <<>>
    ELSE (IF lines[k] \notin BlankKinds /\ lines[k] \in LongKinds
          THEN <<[line |-> k]>> ELSE <<>>)
             \o StyleIssues(lines, k + 1)
RECURSIVE CommentPractices(_, _)
CommentPractices(lines, k) ==
    IF k > Len(lines) THEN <<>>
    ELSE (IF lines[k] \notin BlankKinds /\ lines[k] = "comment"
          THEN <<[line |-> k]>> ELSE <<>>)
             \o CommentPractices(lines, k + 1)

\* _analyze_style
analyze_style(code) ==
    LET style_issues == StyleIssues(code.lines, 1)
        meaningful_vars == SelectSeq(code.lines, LAMBDA l : l = "named")
        good_practices ==
            CommentPractices(code.lines, 1)
                \o (IF meaningful_vars # <<>> THEN <<[line |-> 0]>> ELSE <<>>)
    IN  [style_issues |-> style_issues,
         good_practices |-> good_practices,
         readability_score |-> Min(10, Max(1, 10 - Len(style_issues)))]

\* int(x) of the rational num / den, den > 0: truncation toward zero
TruncDiv(num, den) == IF num >= 0 THEN num \div den ELSE -((-num) \div den)

\* _calculate_overall_score
calculate_overall_score(result, syntax, logic) ==
    LET den == Max(result.total_tests, 1)
        \* test_score = (passed_tests / den) * 40, kept as the fraction 40 * passed / den
        test_num == result.passed_tests * 40
        syntax_score == IF syntax.is_valid THEN 30 ELSE 0
        logic_score == IF result.success THEN 20 ELSE 10
        style_score == Min(10, Len(Get(syntax.structure, "good_practices", <<>>)) * 2)
    IN  TruncDiv(test_num + (syntax_score + logic_score + style_score) * den, den)

\* the hints of _generate_adaptive_hints
Hint(kind) == [kind |-> kind, n |-> 0]
FailedHint(n) == [kind |-> "failed_tests", n |-> n]

\* the hint appended for one logic issue: if / elif on the label
IssueHint(issue) ==
    IF issue = "Variable not defined before use" THEN <<Hint("define_variables")>>
    ELSE IF issue = "Incorrect data type usage" THEN <<Hint("data_types")>>
    ELSE <<>>

RECURSIVE IssueHints(_)
IssueHints(issues) ==
    IF issues = <<>> THEN <<>> ELSE IssueHint(Head(issues)) \o IssueHints(Tail(issues))

\* s[:n]
Take(s, n) == SubSeq(s, 1, Min(n, Len(s)))

\* a hint list that is not cut to 3
generate_hints_uncut(result, profile, syntax, logic) ==
    (IF ~syntax.is_valid THEN <<Hint("syntax")>> ELSE <<>>)
        \o IssueHints(Take(logic.logic_issues, 2))
        \o (IF result.total_tests - result.passed_tests > 0
            THEN <<FailedHint(result.total_tests - result.passed_tests)>> ELSE <<>>)
        \o (IF profile.age <= 10 THEN <<Hint("small_steps")>> ELSE <<Hint("edge_cases")>>)

\* _generate_adaptive_hints
generate_adaptive_hints(result, profile, syntax, logic) ==
    LET syntax_hints == IF ~syntax.is_valid THEN <<Hint("syntax")>> ELSE <<>>
        logic_hints ==
            IF logic.logic_issues # <<>> THEN IssueHints(Take(logic.logic_issues, 2))
            ELSE <<>>
        failed_tests == result.total_tests - result.passed_tests
        test_hints == IF failed_tests > 0 THEN <<FailedHint(failed_tests)>> ELSE <<>>
        age_hints ==
            IF profile.age <= 10 THEN <<Hint("small_steps")>> ELSE <<Hint("edge_cases")>>
    IN  Take(syntax_hints \o logic_hints \o test_hints \o age_hints, 3)

\* the replies of the collaborator: an empty text, one of 200 characters and
\* one of 201
Responses == {Text("llm", 0), Text("llm", 200), Text("llm", 201)}

\* response[:200] + "..." if len(response) > 200 else response
Shorten(reply) == IF reply.len > 200 THEN Text("llm", 200 + 3) ELSE reply

\* _generate_educational_feedback: the dictionary built from a reply
FeedbackOf(reply) ==
    [concept_mastery |-> {<<"variables", 4>>, <<"functions", 3>>},
     feedback |-> Shorten(reply),
     strengths |-> <<"Good variable naming", "Correct syntax">>,
     improvements |-> <<"Add error handling", "Improve efficiency">>,
     next_steps |-> <<"Learn about loops", "Practice with functions">>,
     encouragement |-> Text("great_work", 25)]

\* _generate_educational_feedback: the dictionary of `except Exception`
FallbackFeedback ==
    [concept_mastery |-> {},
     feedback |-> Text("keep_practicing", 29),
     strengths |-> <<"Attempting the challenge">>,
     improvements |-> <<"Review the lesson concepts">>,
     next_steps |-> <<"Practice more examples">>,
     encouragement |-> Text("doing_great", 21)]

\* a report whose score counts the strengths of the feedback in
BuildReportFeedbackScored(result, syntax, logic, style, feedback, hintList) ==
    [overall_score |->
         calculate_overall_score(result, syntax, logic) + Len(feedback.strengths),
     concept_mastery |-> feedback.concept_mastery,
     syntax |-> syntax,
     logic |-> logic,
     style |-> style,
     personalized_feedback |-> feedback.feedback,
     adaptive_hints |-> hintList,
     next_steps |-> feedback.next_steps,
     encouragement |-> feedback.encouragement,
     areas_for_improvement |-> feedback.improvements,
     strengths |-> feedback.strengths]

\* the dictionary analyze_student_code returns
BuildReport(result, syntax, logic, style, feedback, hintList) ==
    [overall_score |-> calculate_overall_score(result, syntax, logic),
     concept_mastery |-> feedback.concept_mastery,
     syntax |-> syntax,
     logic |-> logic,
     style |-> style,
     personalized_feedback |-> feedback.feedback,
     adaptive_hints |-> hintList,
     next_steps |-> feedback.next_steps,
     encouragement |-> feedback.encouragement,
     areas_for_improvement |-> feedback.improvements,
     strengths |-> feedback.strengths]

\* programs that differ in what ast.parse makes of them
SyntaxInputs ==
    {ParsedCode(t, <<>>) : t \in Trees} \cup {BrokenCode(n, <<>>) : n \in ErrorLines}
        \cup {ExhaustingCode(<<>>)}
\* programs that differ in their lines
StyleInputs ==
    {ParsedCode(<<>>, ls) : ls \in LineSeqs} \cup {BrokenCode(1, ls) : ls \in LineSeqs}

\* analyze_student_code is about to run: on any program tree, or on any
\* lines with any counts in the execution result, or on any test results
\* with any age, or on test results with any outputs
InitAn ==
    /\ \/ \E code \in SyntaxInputs :
              AnStart(code, ExecutionResult(TRUE, 1, 1, <<>>), [age |-> 10])
       \/ \E code \in StyleInputs, ok \in BOOLEAN, total \in CountValues,
             passed \in CountValues :
              AnStart(code, ExecutionResult(ok, total, passed, <<>>), [age |-> 10])
       \/ \E parsed \in BOOLEAN, total \in 0..MaxCount, results \in AnResultSeqs,
             age \in Ages :
              AnStart(IF parsed THEN ParsedCode(<<>>, <<>>) ELSE BrokenCode(1, <<>>),
                      ExecutionResult(TRUE, total, 1, results), [age |-> age])
       \/ \E results \in OutResultSeqs :
              AnStart(ParsedCode(<<>>, <<>>), ExecutionResult(TRUE, 1, 1, results),
                      [age |-> 10])
    /\ ExecStart("local", TRUE, [test_cases |-> <<>>, timeout_seconds |-> 1])
    /\ InputIdle
    /\ ParIdle
    /\ SubIdle
    /\ HintIdle

\* syntax_analysis = self._analyze_syntax(student_code)
AnalyzeSyntax ==
    /\ an_pc = "syntax"
    /\ student_code.raises \in {"none", "SyntaxError"}
    /\ syntax_analysis' = analyze_syntax(student_code)
    /\ an_pc' = "logic"
    /\ UNCHANGED <<student_code, execution_result, student_profile, logic_analysis,
                   style_analysis, llm, educational_feedback, hints, report,
                   api_response, first_call,
                   execVars, inputVars, parVars, subVars, hintVars>>

\* ast.parse raises an exception that is no SyntaxError: it leaves
\* _analyze_syntax and analyze_student_code
AnalyzeSyntaxRaises ==
    /\ an_pc = "syntax"
    /\ student_code.raises \notin {"none", "SyntaxError"}
    /\ an_pc' = "raised"
    /\ UNCHANGED <<student_code, execution_result, student_profile, syntax_analysis,
                   logic_analysis, style_analysis, llm, educational_feedback, hints,
                   report, api_response, first_call,
                   execVars, inputVars, parVars, subVars, hintVars>>

\* logic_analysis = self._analyze_logic(student_code, execution_result)
AnalyzeLogic ==
    /\ an_pc = "logic"
    /\ logic_analysis' = analyze_logic(execution_result)
    /\ an_pc' = "style"
    /\ UNCHANGED <<student_code, execution_result, student_profile, syntax_analysis,
                   style_analysis, llm, educational_feedback, hints, report,
                   api_response, first_call,
                   execVars, inputVars, parVars, subVars, hintVars>>

\* style_analysis = self._analyze_style(student_code)
AnalyzeStyle ==
    /\ an_pc = "style"
    /\ style_analysis' = analyze_style(student_code)
    /\ an_pc' = "feedback"
    /\ UNCHANGED <<student_code, execution_result, student_profile, syntax_analysis,
                   logic_analysis, llm, educational_feedback, hints, report,
                   api_response, first_call,
                   execVars, inputVars, parVars, subVars, hintVars>>

\* _generate_educational_feedback builds the prompt and awaits
\* self.llm.ainvoke(prompt); the call is one that will end or one that never does
LlmInvoke ==
    /\ an_pc = "feedback"
    /\ llm' \in {"pending", "hung"}
    /\ an_pc' = "llm"
    /\ UNCHANGED <<student_code, execution_result, student_profile, syntax_analysis,
                   logic_analysis, style_analysis, educational_feedback, hints, report,
                   api_response, first_call,
                   execVars, inputVars, parVars, subVars, hintVars>>

\* ainvoke returns a text
LlmReturns ==
    /\ an_pc = "llm" /\ llm = "pending"
    /\ \E reply \in Responses : educational_feedback' = FeedbackOf(reply)
    /\ llm' = "returned"
    /\ an_pc' = "hints"
    /\ UNCHANGED <<student_code, execution_result, student_profile, syntax_analysis,
                   logic_analysis, style_analysis, hints, report,
                   api_response, first_call,
                   execVars, inputVars, parVars, subVars, hintVars>>

\* ainvoke raises: `except Exception` returns the fallback dictionary
LlmRaises ==
    /\ an_pc = "llm" /\ llm = "pending"
    /\ educational_feedback' = FallbackFeedback
    /\ llm' = "raised"
    /\ an_pc' = "hints"
    /\ UNCHANGED <<student_code, execution_result, student_profile, syntax_analysis,
                   logic_analysis, style_analysis, hints, report,
                   api_response, first_call,
                   execVars, inputVars, parVars, subVars, hintVars>>

\* hints = await self._generate_adaptive_hints(...)
GenerateHints ==
    /\ an_pc = "hints"
    /\ hints' = generate_adaptive_hints(execution_result, student_profile,
                                        syntax_analysis, logic_analysis)
    /\ an_pc' = "report"
    /\ UNCHANGED <<student_code, execution_result, student_profile, syntax_analysis,
                   logic_analysis, style_analysis, llm, educational_feedback, report,
                   api_response, first_call,
                   execVars, inputVars, parVars, subVars, hintVars>>

\* return {...}
ReturnReport ==
    /\ an_pc = "report"
    /\ report' = BuildReport(execution_result, syntax_analysis, logic_analysis,
                             style_analysis, educational_feedback, hints)
    /\ an_pc' = "returned"
    /\ UNCHANGED <<student_code, execution_result, student_profile, syntax_analysis,
                   logic_analysis, style_analysis, llm, educational_feedback, hints,
                   api_response, first_call,
                   execVars, inputVars, parVars, subVars, hintVars>>

\* the dictionary /analyze-code returns from `except Exception`
ErrorResponse ==
    ApiResponse(ErrorKeys,
                [NoReport EXCEPT !.adaptive_hints = <<Hint("keep_practicing")>>,
                                 !.encouragement = Text("doing_great", 21)])

\* /analyze-code: `return analysis`
EndpointReturns ==
    /\ an_pc = "returned"
    /\ api_response = NoApi
    /\ api_response' = ApiResponse(ReportKeys, report)
    /\ UNCHANGED <<an_pc, student_code, execution_result, student_profile,
                   syntax_analysis, logic_analysis, style_analysis, llm,
                   educational_feedback, hints, report, first_call,
                   execVars, inputVars, parVars, subVars, hintVars>>

\* /analyze-code: `except Exception as e`
EndpointFallback ==
    /\ an_pc = "raised"
    /\ api_response = NoApi
    /\ api_response' = ErrorResponse
    /\ UNCHANGED <<an_pc, student_code, execution_result, student_profile,
                   syntax_analysis, logic_analysis, style_analysis, llm,
                   educational_feedback, hints, report, first_call,
                   execVars, inputVars, parVars, subVars, hintVars>>

NextAn ==
    \/ AnalyzeSyntax
    \/ AnalyzeSyntaxRaises
    \/ AnalyzeLogic
    \/ AnalyzeStyle
    \/ LlmInvoke
    \/ LlmReturns
    \/ LlmRaises
    \/ GenerateHints
    \/ ReturnReport
    \/ EndpointReturns
    \/ EndpointFallback

SpecAn == InitAn /\ [][NextAn]_vars

\* the analysis task is resumed whenever it can step (the event loop runs a
\* ready task; a call that ends is delivered)
FairSpecAn == InitAn /\ [][NextAn]_vars /\ WF_vars(NextAn)

\* ------------------------------------------------------- repeated analysis
\* programs and execution results that differ in what the score is computed from
InitAgain ==
    /\ \E code \in {ParsedCode(<<>>, <<>>), BrokenCode(1, <<>>), ExhaustingCode(<<>>)},
          ok \in BOOLEAN, total \in CountValues, passed \in CountValues :
           AnStart(code, ExecutionResult(ok, total, passed, <<>>), [age |-> 10])
    /\ ExecStart("local", TRUE, [test_cases |-> <<>>, timeout_seconds |-> 1])
    /\ InputIdle
    /\ ParIdle
    /\ SubIdle
    /\ HintIdle

\* /analyze-code is requested again with the same arguments, on the same
\* code_analyzer object: the score and the collaborator's outcome of the first
\* request are kept for comparison
AnalyzeAgain ==
    /\ api_response # NoApi
    /\ ~first_call.done
    /\ first_call' = [done |-> TRUE, score |-> api_response.body.overall_score,
                      llm |-> llm]
    /\ an_pc' = "syntax"
    /\ syntax_analysis' = NoSyntax
    /\ logic_analysis' = NoLogic
    /\ style_analysis' = NoStyle
    /\ llm' = "idle"
    /\ educational_feedback' = NoFeedback
    /\ hints' = <<>>
    /\ report' = NoReport
    /\ api_response' = NoApi
    /\ UNCHANGED <<student_code, execution_result, student_profile,
                   execVars, inputVars, parVars, subVars, hintVars>>

NextAgain == NextAn \/ AnalyzeAgain

SpecAgain == InitAgain /\ [][NextAgain]_vars

\* --------------------------------------------------- submit with analysis
\* lesson_blueprints.get_blueprint_by_id
get_blueprint_by_id(blueprint_id) ==
    IF blueprint_id \in KnownLessons THEN Ok(blueprint_id) ELSE Raise("ValueError")

\* lesson_blueprints.get_blueprints_for_age
get_blueprints_for_age(age_group) ==
    IF ~(age_group.type = "str" /\ age_group.str \in AgeGroups)
    THEN Raise("ValueError")
    ELSE Ok(Curriculum[age_group.str])

\* position_in_curriculum of a blueprint
PositionOf(blueprint_id) ==
    LET InGroup(g, k) == k \in 1..Len(Curriculum[g]) /\ Curriculum[g][k] = blueprint_id
        group == CHOOSE g \in AgeGroups : \E k \in 1..Len(Curriculum[g]) : InGroup(g, k)
    IN  CHOOSE k \in 1..Len(Curriculum[group]) : InGroup(group, k)

\* lesson_blueprints.get_next_lesson
get_next_lesson(current_blueprint_id, age_group) ==
    LET blueprints == get_blueprints_for_age(age_group)
        current_blueprint == get_blueprint_by_id(current_blueprint_id)
    IN  IF blueprints.raises # "none" THEN Raise(blueprints.raises)
        ELSE IF current_blueprint.raises # "none" THEN current_blueprint
        ELSE LET next_position == PositionOf(current_blueprint_id) + 1
             IN  IF next_position <= Len(blueprints.value)
                 THEN Ok(blueprints.value[next_position])
                 ELSE Raise("ValueError")

\* main.get_review_lesson: review_mapping as a dictionary
review_mapping ==
    {<<"variables_intro_8_10", "variables_practice_8_10">>,
     <<"functions_intro_8_10", "functions_practice_8_10">>,
     <<"loops_intro_8_10", "loops_practice_8_10">>}
get_review_lesson(lesson) == Get(review_mapping, lesson, NoLesson)

\* x or y, on lesson ids
OrElse(x, y) == IF x # NoLesson THEN x ELSE y

\* main.get_adaptive_next_lesson; get_next_lesson has no parameter
\* skip_intermediate, so the call that passes it raises TypeError
get_adaptive_next_lesson(current_lesson_id, age, performance_score) ==
    LET current_blueprint == get_blueprint_by_id(current_lesson_id)
        next_lesson ==
            IF performance_score >= 90 THEN Raise("TypeError")
            ELSE IF performance_score >= 70
                 THEN get_next_lesson(current_lesson_id, IntArg(age))
            ELSE Ok(OrElse(get_review_lesson(current_lesson_id), current_lesson_id))
    IN  IF current_blueprint.raises # "none" THEN current_blueprint
        ELSE IF next_lesson.raises # "none" THEN next_lesson
        ELSE Ok(OrElse(next_lesson.value, "review_fundamentals"))

\* "mastery_level" of learning_insights
mastery_level(score) ==
    IF score < 70 THEN "developing" ELSE IF score < 90 THEN "proficient" ELSE "advanced"

\* main.generate_study_suggestions, by the performance band it picks
generate_study_suggestions(score) ==
    IF score < 50 THEN "review" ELSE IF score < 80 THEN "optimize" ELSE "challenge"

\* the dictionary of `except Exception`
SubErrorResponse == SubResponse(TRUE, "none", NoAnalysis, NoInsights)

InitSub ==
    /\ \E lesson \in LessonIds, age \in Ages : SubStart(lesson, age)
    /\ ExecStart("local", TRUE, [test_cases |-> <<>>, timeout_seconds |-> 1])
    /\ InputIdle
    /\ ParIdle
    /\ AnIdle
    /\ HintIdle

\* execution_result = await code_executor.execute_code(execution_request)
SubExecuteReturns ==
    /\ sub_pc = "execute"
    /\ sub_calls' = Append(sub_calls, "execute")
    /\ sub_execution' = "result"
    /\ sub_pc' = "analyze"
    /\ UNCHANGED <<lesson_id, sub_age, sub_analysis, sub_response,
                   execVars, inputVars, parVars, anVars, hintVars>>

\* execute_code raises (its handler's cleanup failed): `except Exception`
SubExecuteRaises ==
    /\ sub_pc = "execute"
    /\ sub_calls' = Append(sub_calls, "execute")
    /\ sub_response' = SubErrorResponse
    /\ sub_pc' = "returned"
    /\ UNCHANGED <<lesson_id, sub_age, sub_execution, sub_analysis,
                   execVars, inputVars, parVars, anVars, hintVars>>

\* analysis = await code_analyzer.analyze_student_code(...)
SubAnalyzeReturns ==
    /\ sub_pc = "analyze"
    /\ sub_calls' = Append(sub_calls, "analyze")
    /\ \E score \in Scores : sub_analysis' = Analysis(score)
    /\ sub_pc' = "insights"
    /\ UNCHANGED <<lesson_id, sub_age, sub_execution, sub_response,
                   execVars, inputVars, parVars, anVars, hintVars>>

\* analyze_student_code raises: `except Exception`
SubAnalyzeRaises ==
    /\ sub_pc = "analyze"
    /\ sub_calls' = Append(sub_calls, "analyze")
    /\ sub_response' = SubErrorResponse
    /\ sub_pc' = "returned"
    /\ UNCHANGED <<lesson_id, sub_age, sub_execution, sub_analysis,
                   execVars, inputVars, parVars, anVars, hintVars>>

\* analyze_student_code never returns (its collaborator never answers)
SubAnalyzeHangs ==
    /\ sub_pc = "analyze"
    /\ sub_calls' = Append(sub_calls, "analyze")
    /\ sub_pc' = "waiting"
    /\ UNCHANGED <<lesson_id, sub_age, sub_execution, sub_analysis, sub_response,
                   execVars, inputVars, parVars, anVars, hintVars>>

\* return {...}: the dictionary is built, or building it raises and
\* `except Exception` returns the error dictionary
SubReturn ==
    /\ sub_pc = "insights"
    /\ LET score == sub_analysis.overall_score
           recommended == get_adaptive_next_lesson(lesson_id, sub_age, score)
       IN  sub_response' =
               IF recommended.raises # "none" THEN SubErrorResponse
               ELSE SubResponse(FALSE, sub_execution, sub_analysis,
                                [present |-> TRUE,
                                 mastery_level |-> mastery_level(score),
                                 recommended_next_lesson |-> recommended.value,
                                 study_suggestions |-> generate_study_suggestions(score)])
    /\ sub_pc' = "returned"
    /\ UNCHANGED <<lesson_id, sub_age, sub_execution, sub_analysis, sub_calls,
                   execVars, inputVars, parVars, anVars, hintVars>>

NextSub ==
    \/ SubExecuteReturns
    \/ SubExecuteRaises
    \/ SubAnalyzeReturns
    \/ SubAnalyzeRaises
    \/ SubAnalyzeHangs
    \/ SubReturn

SpecSub == InitSub /\ [][NextSub]_vars

\* ------------------------------------------------------------ hint system
\* a get_next_hint that hands out the last hint again once all are used
get_next_hint_repeating(level, available, used) ==
    IF available # <<>>
    THEN LET next_hint == available[Min(level + 1, Len(available))]
         IN  [hint_level |-> Min(level + 1, Len(available)),
              hints_used |-> Append(used, next_hint),
              result |-> SomeHint(next_hint)]
    ELSE [hint_level |-> level, hints_used |-> used, result |-> NoHint]

\* HintSystem.get_next_hint: the fields after the call and what it returns;
\* available_hints[hint_level] counts from 0
get_next_hint(level, available, used) ==
    IF level < Len(available)
    THEN LET next_hint == available[level + 1]
         IN  [hint_level |-> level + 1,
              hints_used |-> Append(used, next_hint),
              result |-> SomeHint(next_hint)]
    ELSE [hint_level |-> level, hints_used |-> used, result |-> NoHint]

InitHint ==
    /\ \E available \in HintLists : HintStart(available)
    /\ ExecStart("local", TRUE, [test_cases |-> <<>>, timeout_seconds |-> 1])
    /\ InputIdle
    /\ ParIdle
    /\ AnIdle
    /\ SubIdle

\* one call of get_next_hint()
GetNextHint ==
    /\ Len(hint_returns) < MaxHintCalls
    /\ LET after == get_next_hint(hint_level, available_hints, hints_used)
       IN  /\ hint_level' = after.hint_level
           /\ hints_used' = after.hints_used
           /\ hint_returns' = Append(hint_returns, after.result)
    /\ UNCHANGED <<available_hints, execVars, inputVars, parVars, anVars, subVars>>

NextHint == GetNextHint

SpecHint == InitHint /\ [][NextHint]_vars

\* ------------------------------------------------------------------ claims
Ended == pc \in {"returned", "raised"}

\* C1 (as stated): for a child that completed within the timeout, on either
\* spawn strategy, passed holds iff the trimmed stdout equals the trimmed
\* expected output and the captured stderr is empty.
C1_PassedIffMatchAndNoStderr ==
    (pc = "append" /\ outcome = "completed") =>
        (test_result.passed <=>
            (Strip(proc.stdout) = Strip(test_case.expected_output) /\ proc.stderr = <<>>))

\* C1 (amended): for a child that completed within the timeout, on either
\* spawn strategy, passed holds iff the trimmed stdout equals the trimmed
\* expected output and the whitespace-trimmed stderr is empty; the exit code
\* plays no part.
C1_PassedIffMatchAndBlankStderr ==
    (pc = "append" /\ outcome = "completed") =>
        (test_result.passed <=>
            (Strip(proc.stdout) = Strip(test_case.expected_output)
             /\ Strip(proc.stderr) = <<>>))

\* a child that exited nonzero passed after trimming made its stdout match
C1_Witness ==
    /\ pc = "append" /\ outcome = "completed"
    /\ proc.returncode # 0
    /\ proc.stdout # test_case.expected_output
    /\ test_result.passed

\* C2: the response holds exactly one TestResult per test case, in input
\* order, with test_results[k].test_id = k.
C2_OneResultPerTestCase ==
    pc = "returned" =>
        /\ Len(response.test_results) = response.total_tests
        /\ \A k \in 1..Len(response.test_results) :
               response.test_results[k].test_id = k - 1

\* C3: when execute_code has finished a batch, every temp file it created
\* has been deleted.
C3_TempFilesDeleted == Ended => fs = {}

\* C4: when the task was cancelled with a child in flight, the child has been
\* terminated and its temp file deleted: the task never ends with its child
\* running.
C4_NoOrphanAfterCancel ==
    pc = "cancelled" => (running = {} /\ temp_file \notin fs)

\* the non-empty actual outputs of a list of results, in order
RECURSIVE OutputsOf(_)
OutputsOf(results) ==
    IF results = <<>> THEN <<>>
    ELSE (IF Head(results).actual_output.val # <<>>
          THEN <<Head(results).actual_output.val>> ELSE <<>>)
         \o OutputsOf(Tail(results))

\* C5: a child that exceeded the timeout is killed before its TestResult is
\* recorded; that TestResult has passed = false, no actual output, the
\* timeout message with the configured timeout, and adds nothing to the
\* overall output; no TestResult of test k exists while the child of test k
\* is running.
C5_TimeoutKilledThenRecorded ==
    /\ (pc = "append" /\ outcome = "timeout") =>
           /\ i \notin running
           /\ test_result.test_id = i
           /\ test_result.passed = FALSE
           /\ test_result.actual_output = None
           /\ test_result.error_message = TimeoutMsg(request.timeout_seconds)
           /\ overall_outputs = OutputsOf(test_results)
    /\ pc \in {"append", "unlink"} => i \notin running
    /\ \A k \in 1..Len(test_results) : test_results[k].test_id \notin running

\* a timed-out test case has its TestResult recorded
C5_Witness ==
    \E k \in 1..Len(test_results) : test_results[k].error_message.kind = "timeout"

\* C6: a failure in test case i never aborts the batch: when execute_code
\* has finished, every test case was begun.
C6_BatchNeverAborted ==
    (backend = "local" /\ Ended) => attempted = 0..(N - 1)

\* C7: execute_code never raises to its caller.
C7_NeverRaises == pc # "raised"

\* C8: when a spawn or temp-file fault happened, the response has
\* success = false and a non-empty runtime_errors list.
C8_FaultGivesFailure ==
    (pc = "returned" /\ fault) =>
        (response.success = FALSE /\ response.runtime_errors # <<>>)

\* C9: execute_code (of the "local" executor) eventually returns a response
\* for every request: every wait ends and the loop reaches the end.
C9_EventuallyReturns == (backend = "local") => <>(pc = "returned")

\* C10: the n-th call of input() returns the n-th queued text for n <= k and
\* the empty text afterwards; the index is the number of queued texts
\* consumed and never exceeds k; the real input stream is never read.
C10_InputFromQueue ==
    /\ \A n \in 1..Len(returned) :
           returned[n] = IF n <= Len(input_data) THEN input_data[n] ELSE <<>>
    /\ input_index <= Len(input_data)
    /\ input_index = IF Len(returned) <= Len(input_data)
                     THEN Len(returned) ELSE Len(input_data)
    /\ stdin_reads = 0

\* two queued texts were consumed and a third call returned the empty text
C10_Witness ==
    /\ Len(input_data) = 2
    /\ Len(returned) = 3
    /\ returned[1] # <<>>
    /\ returned[3] = <<>>

\* the number of entries of a list of results with passed = true
PassedEntries(results) == Cardinality({k \in 1..Len(results) : results[k].passed})

\* C11: in every response returned by execute_code, passed_tests equals the
\* number of entries of test_results with passed = true, and
\* 0 <= passed_tests <= total_tests.
C11_PassedTestsIsCount ==
    pc = "returned" =>
        /\ response.passed_tests = PassedEntries(response.test_results)
        /\ 0 <= response.passed_tests
        /\ response.passed_tests <= response.total_tests

\* a response of two test cases, one passed and one failed after completing
C11_Witness ==
    /\ pc = "returned"
    /\ response.total_tests = 2
    /\ response.passed_tests = 1
    /\ \E k \in 1..Len(response.test_results) :
           /\ ~response.test_results[k].passed
           /\ response.test_results[k].actual_output # None

\* the non-null error messages of a list of results, in order
HasMessage(tr) == tr.error_message.kind # "none"
NonNullMessages(results) ==
    LET sel == SelectSeq(results, HasMessage)
    IN  [k \in 1..Len(sel) |-> sel[k].error_message]

\* C12: in every response returned by execute_code, runtime_errors is the
\* sequence of the non-null error_message values of test_results in test
\* order, and overall_output is the newline-join of the non-empty
\* actual_output values of test_results in test order (null when none).
C12_AggregatesFromResults ==
    pc = "returned" =>
        /\ response.runtime_errors = NonNullMessages(response.test_results)
        /\ response.overall_output = OrNone(JoinNL(OutputsOf(response.test_results)))

\* a response that joins two outputs and lists an error message
C12_Witness ==
    /\ pc = "returned"
    /\ Len(OutputsOf(response.test_results)) = 2
    /\ response.overall_output = Some(<<"a", NL, "a">>)
    /\ response.runtime_errors # <<>>
    /\ Len(response.runtime_errors) < Len(response.test_results)

ContractFields(tr) == <<tr.passed, tr.expected_output, tr.actual_output, tr.error_message>>

\* C14: for the same child behaviour (stdout, stderr, completes or exceeds
\* the timeout, spawn fails) the TestResult built on the strategy in use has
\* the passed, expected_output, actual_output and error_message that the
\* async path and the thread fallback both build from that behaviour; once
\* the result is built no child is running, and when the test case is over
\* without a failed temp-file operation its temp file is deleted.
C14_StrategiesAgree ==
    /\ (pc = "append" /\ outcome = "completed") =>
           /\ ContractFields(test_result) =
                  ContractFields(CompletedResult(i, test_case, proc.stdout, proc.stderr))
           /\ ContractFields(test_result) =
                  ContractFields(ThreadCompletedResult(i, test_case, proc.stdout, proc.stderr))
    /\ (pc = "append" /\ outcome = "timeout") =>
           /\ ContractFields(test_result) =
                  ContractFields(TimedOutResult(i, test_case, request.timeout_seconds))
           /\ ContractFields(test_result) =
                  ContractFields(ThreadTimedOutResult(i, test_case, request.timeout_seconds))
    /\ (pc = "loop" /\ outcome = "error" /\ ~file_fault) =>
           /\ i > 0
           /\ ContractFields(test_results[Len(test_results)]) =
                  ContractFields(ExecErrorResult(i - 1, request.test_cases[i], "OSError"))
           /\ ContractFields(test_results[Len(test_results)]) =
                  ContractFields(ThreadExecErrorResult(i - 1, request.test_cases[i], "OSError"))
    /\ pc \in {"append", "unlink", "handler", "loop", "returned"} => running = {}
    /\ (pc \in {"loop", "returned"} /\ ~file_fault) => fs = {}

\* on the thread fallback a child passed after its stdout was trimmed, and
\* the test case before it ended with its temp file deleted
C14_Witness ==
    /\ ~loop_ok
    /\ pc = "append" /\ outcome = "completed"
    /\ i = 1
    /\ test_result.passed
    /\ fs = {temp_file}

\* _analyze_syntax has run
SyntaxDone == an_pc \notin {"idle", "syntax"}

\* C15: when the program text fails to parse, the syntax analysis has
\* is_valid = false, a non-empty syntax_errors list carrying line number and
\* message, every structural count (functions, classes, loops, conditionals,
\* assignments, imports) equal to zero, and complexity score 1; the
\* complexity score is an integer >= 1 for every input.
C15_ParseFailureAnalysis ==
    SyntaxDone =>
        /\ ~student_code.parsed =>
               /\ syntax_analysis.is_valid = FALSE
               /\ syntax_analysis.syntax_errors # <<>>
               /\ \A k \in 1..Len(syntax_analysis.syntax_errors) :
                      /\ syntax_analysis.syntax_errors[k].lineno = student_code.lineno
                      /\ syntax_analysis.syntax_errors[k].msg # ""
               /\ \A key \in StructureKeys : Get(syntax_analysis.structure, key, -1) = 0
               /\ syntax_analysis.complexity_score = 1
        /\ syntax_analysis.complexity_score >= 1

\* the number of nodes of a tree whose type is one of types
NodesOfType(tree, types) == Cardinality({k \in 1..Len(tree) : tree[k].type \in types})
\* the sum of (operand count - 1) over the BoolOp nodes k..Len(tree)
RECURSIVE ExtraOperands(_, _)
ExtraOperands(tree, k) ==
    IF k > Len(tree) THEN 0
    ELSE (IF tree[k].type = "BoolOp" THEN tree[k].values - 1 ELSE 0)
             + ExtraOperands(tree, k + 1)

\* C16: for every parsed program the complexity score is 1 + (number of if
\* nodes) + (number of for and while nodes) + (number of exception-handler
\* nodes) + the sum over the compound boolean expressions of (operand count
\* - 1), over the whole tree, nested nodes included; one conditional plus
\* one loop and nothing else that counts gives exactly 3.
C16_ComplexityFormula ==
    (SyntaxDone /\ student_code.parsed) =>
        LET tree == student_code.tree
        IN  /\ syntax_analysis.complexity_score =
                   1 + NodesOfType(tree, {"If"}) + NodesOfType(tree, {"For", "While"})
                     + NodesOfType(tree, {"ExceptHandler"}) + ExtraOperands(tree, 1)
            /\ (/\ NodesOfType(tree, {"If"}) = 1
                /\ NodesOfType(tree, {"For", "While"}) = 1
                /\ NodesOfType(tree, {"BoolOp", "ExceptHandler"}) = 0)
                   => syntax_analysis.complexity_score = 3

\* a loop nested in a conditional was scored 3
C16_Witness ==
    /\ SyntaxDone /\ student_code.parsed
    /\ Len(student_code.tree) = 2
    /\ student_code.tree[1].type = "If"
    /\ student_code.tree[2].type = "While"
    /\ student_code.tree[2].parent = 1
    /\ syntax_analysis.complexity_score = 3

\* the terms of the score as the contract lists them
TestFraction == [num |-> execution_result.passed_tests,
                 den |-> Max(execution_result.total_tests, 1)]
SyntaxPoints == IF student_code.parsed THEN 30 ELSE 0
SuccessPoints == IF execution_result.success THEN 20 ELSE 10
StylePoints == Min(10, 2 * Len(style_analysis.good_practices))
\* 0.40 x fraction x 100 + 0.30 x syntax + 0.20 x success + 0.10 x style
ScoreWeightsApplied ==
    TruncDiv(400 * TestFraction.num
                 + (3 * SyntaxPoints + 2 * SuccessPoints + StylePoints) * TestFraction.den,
             10 * TestFraction.den)
\* the same with 30, 20|10 and min(10, 2 x count) read as the weighted points
ScorePointsAdded ==
    TruncDiv(40 * TestFraction.num
                 + (SyntaxPoints + SuccessPoints + StylePoints) * TestFraction.den,
             TestFraction.den)

\* C17: the overall score equals 0.40 x (passedTests / max(totalTests,1)) x
\* 100 + 0.30 x (30 if syntax valid else 0) + 0.20 x (20 if execution
\* succeeded else 10) + 0.10 x min(10, 2 x goodPracticeCount), truncated to
\* an integer, where goodPracticeCount is the number of good practices the
\* style pass recorded; the listed terms are taken either with the weights
\* applied to them or as the already weighted points.
C17_ScoreFormula ==
    an_pc = "returned" =>
        report.overall_score \in {ScoreWeightsApplied, ScorePointsAdded}

\* C18: the overall score returned by the analysis is an integer in
\* [0,100] for every ExecutionResponse it can be given, a caller-supplied
\* one with arbitrary passed_tests and total_tests included.
C18_ScoreInRange ==
    an_pc = "returned" => report.overall_score \in 0..100

\* the hint the contract gives for a logic-issue label
LabelHint(label) ==
    IF label = "Variable not defined before use" THEN Hint("define_variables")
    ELSE IF label = "Incorrect data type usage" THEN Hint("data_types")
    ELSE Hint("indentation")
FailedTestsPart ==
    IF execution_result.passed_tests < execution_result.total_tests
    THEN <<FailedHint(execution_result.total_tests - execution_result.passed_tests)>>
    ELSE <<>>
AgeBandPart ==
    IF student_profile.age <= 10 THEN <<Hint("small_steps")>> ELSE <<Hint("edge_cases")>>
FirstTwoLabels == Take(logic_analysis.logic_issues, 2)
HintsDone == an_pc \in {"report", "returned"}

\* C19 (as stated): the hint list is the first 3 elements of: the syntax hint
\* if syntax is invalid, otherwise one hint for each of the first two
\* logic-issue labels; then, if passed_tests < total_tests, the failed-tests
\* hint; then one age-banded hint (the simpler one for age <= 10); it always
\* has between 1 and 3 hints.
C19_HintsSyntaxOrLogic ==
    HintsDone =>
        /\ hints =
               Take((IF ~syntax_analysis.is_valid THEN <<Hint("syntax")>>
                     ELSE [k \in 1..Len(FirstTwoLabels) |-> LabelHint(FirstTwoLabels[k])])
                        \o FailedTestsPart \o AgeBandPart, 3)
        /\ Len(hints) \in 1..3

\* the labels that have a hint
HasHint(label) ==
    label \in {"Variable not defined before use", "Incorrect data type usage"}
HintedLabels == SelectSeq(FirstTwoLabels, HasHint)

\* C19 (amended): the hint list is the first 3 elements of: the syntax hint
\* if syntax is invalid; then, whether or not syntax is valid, one hint for
\* each of the first two logic-issue labels that is the undefined-variable
\* or the data-type label (the indentation label gives no hint); then, if
\* passed_tests < total_tests, the failed-tests hint; then one age-banded
\* hint (the simpler one for age <= 10); it always has between 1 and 3 hints.
C19_HintsSyntaxThenLogic ==
    HintsDone =>
        /\ hints =
               Take((IF ~syntax_analysis.is_valid THEN <<Hint("syntax")>> ELSE <<>>)
                        \o [k \in 1..Len(HintedLabels) |-> LabelHint(HintedLabels[k])]
                        \o FailedTestsPart \o AgeBandPart, 3)
        /\ Len(hints) \in 1..3

\* an unparsable program with an undefined-variable label got the syntax hint
\* and then the hint for the label, and the age hint was cut off
C19_Witness ==
    /\ HintsDone
    /\ ~syntax_analysis.is_valid
    /\ Len(hints) = 3
    /\ hints[1] = Hint("syntax")
    /\ hints[2] = Hint("define_variables")
    /\ hints[3].kind = "failed_tests"

\* the report carries the fallback values, all non-empty
FallbackReported ==
    /\ report.personalized_feedback = FallbackFeedback.feedback
    /\ report.personalized_feedback.len > 0
    /\ report.strengths = FallbackFeedback.strengths /\ report.strengths # <<>>
    /\ report.areas_for_improvement = FallbackFeedback.improvements
    /\ report.areas_for_improvement # <<>>
    /\ report.next_steps = FallbackFeedback.next_steps /\ report.next_steps # <<>>
    /\ report.encouragement = FallbackFeedback.encouragement
    /\ report.encouragement.len > 0

\* C20: if the collaborator call fails or never completes,
\* analyze_student_code still returns a complete report whose
\* personalized_feedback, strengths, areas_for_improvement, next_steps and
\* encouragement are the non-empty fallback values.
C20_FallbackOnCollaboratorFailure ==
    (llm \in {"raised", "hung"}) ~> (an_pc = "returned" /\ FallbackReported)

\* the keys of an AnalysisReport: overall score, code quality (syntax, logic,
\* style), hint list, feedback, encouragement, next steps
RequiredKeys ==
    {"overall_score", "code_quality", "adaptive_hints", "personalized_feedback",
     "encouragement", "next_steps"}

\* C21: every response of the analysis operation is a complete AnalysisReport:
\* overall score, code quality, hint list, feedback, encouragement and next
\* steps are all present, on the success path and after an internal failure
\* of the analyzer alike.
C21_AlwaysCompleteReport ==
    api_response # NoApi => RequiredKeys \subseteq api_response.keys

\* _analyze_logic has run
LogicDone == an_pc \in {"style", "feedback", "llm", "hints", "report", "returned"}

\* the label of each known substring
LabelOf(name) ==
    CASE name = "NameError" -> "Variable not defined before use"
      [] name = "TypeError" -> "Incorrect data type usage"
      [] name = "IndentationError" -> "Incorrect indentation"

\* the failing tests whose error message holds a known substring, in test order
LabelledTests ==
    SelectSeq(execution_result.test_results,
              LAMBDA t : ~t.passed /\ t.error_message.present
                         /\ t.error_message.names \cap ErrorNames # {})

\* C22: the logic issues are one label for each failing test whose error
\* message holds a known substring, the label of a substring found in that
\* message, in test order; passing tests and failing tests without a known
\* substring contribute no label.
C22_LabelPerKnownFailure ==
    LogicDone =>
        /\ Len(logic_analysis.logic_issues) = Len(LabelledTests)
        /\ \A k \in 1..Len(LabelledTests) :
               logic_analysis.logic_issues[k]
                   \in {LabelOf(e) : e \in LabelledTests[k].error_message.names}

\* the last test failed with a TypeError message and was labelled; the first
\* test passed, so that the NameError in its message gave no label
C22_Witness ==
    /\ LogicDone
    /\ Len(execution_result.test_results) = MaxAnResults
    /\ execution_result.test_results[1].passed
    /\ execution_result.test_results[1].error_message = ErrorWith({"NameError"})
    /\ ~execution_result.test_results[MaxAnResults].passed
    /\ logic_analysis.logic_issues = <<"Incorrect data type usage">>

\* the text of an actual output, empty when there is none
ActualText(test) == IF test.actual_output.some THEN test.actual_output.val ELSE <<>>

\* the failing tests with no error message whose output differs from the expected
MismatchedTests ==
    SelectSeq(execution_result.test_results,
              LAMBDA t : ~t.passed /\ ~t.error_message.present
                         /\ ActualText(t) # t.expected_output)

\* C23: the output-diff notes are one for every failing test that has no
\* error message and whose actual output differs from the expected one, an
\* empty actual output included, and none for any other test.
C23_NoteIffMismatchWithoutError ==
    LogicDone =>
        /\ Len(logic_analysis.output_patterns) = Len(MismatchedTests)
        /\ \A k \in 1..Len(MismatchedTests) :
               logic_analysis.output_patterns[k]
                   = Pattern(MismatchedTests[k].expected_output,
                             ActualText(MismatchedTests[k]))

\* C24: two analyses of the same execution result and the same program give
\* the same overall score, whatever the collaborator did in either of them
\* and although the first went before the second.
C24_ScoreDeterministic ==
    (an_pc = "returned" /\ first_call.done) => report.overall_score = first_call.score

\* the second analysis returned after the collaborator answered in one call
\* and raised in the other
C24_Witness ==
    /\ an_pc = "returned"
    /\ first_call.done
    /\ {first_call.llm, llm} = {"returned", "raised"}
    /\ report.overall_score > 0

\* C27: the hint list is built before the collaborator is invoked, and it is
\* the list computed from the execution result, the profile and the syntax
\* and logic analyses alone, whatever the collaborator does.
C27_HintsBeforeCollaborator ==
    /\ llm # "idle" => HintsDone
    /\ HintsDone =>
           hints = generate_adaptive_hints(execution_result, student_profile,
                                           syntax_analysis, logic_analysis)

\* _analyze_style has run
StyleDone == an_pc \in {"feedback", "llm", "hints", "report", "returned"}

\* the numbers of the lines of over 100 characters, from line k on
RECURSIVE LongLines(_)
LongLines(k) ==
    IF k > Len(student_code.lines) THEN <<>>
    ELSE (IF student_code.lines[k] \in LongKinds THEN <<[line |-> k]>> ELSE <<>>)
             \o LongLines(k + 1)

\* C28: the style issues are one for every physical line of more than 100
\* characters, whitespace-only lines included, and none for any other line;
\* the readability score is 10 minus their number, kept within 1..10.
C28_IssuePerLongLine ==
    StyleDone =>
        /\ style_analysis.style_issues = LongLines(1)
        /\ style_analysis.readability_score
               = Min(10, Max(1, 10 - Len(LongLines(1))))

\* C29: a request of which the execution operation ran a test case has a
\* timeout greater than zero.
C29_TimeoutPositive == attempted # {} => request.timeout_seconds > 0

\* C26: the choice between the two strategies is made once and then fixed:
\* the executor does not find out a second time, for a later test case, that
\* the asynchronous spawn is unsupported and that it has to fall back.
C26_StrategyChosenOnce == fallback_warnings <= 1

\* C25: when the combined operation has returned after its execution and its
\* analysis both completed, it made exactly one execution call and then
\* exactly one analysis call, and its response holds the execution result,
\* the analysis report and a recommended next lesson, none of them null,
\* for every overall score and every lesson id.
C25_ReturnsBothWithNextLesson ==
    (sub_pc = "returned" /\ sub_execution = "result" /\ sub_analysis.done) =>
        /\ sub_calls = <<"execute", "analyze">>
        /\ sub_response.execution_result = "result"
        /\ sub_response.code_analysis = sub_analysis
        /\ sub_response.learning_insights.present
        /\ sub_response.learning_insights.recommended_next_lesson # NoLesson

\* C30: after any number of get_next_hint calls on a HintSystem that started
\* with hint_level 0 and no hints used, hint_level lies between 0 and the
\* number of available hints, hints_used is the first hint_level available
\* hints in order, the k-th call returned the k-th available hint while there
\* was one, and every later call returned None and changed nothing.
C30_HintsInOrderThenNone ==
    /\ 0 <= hint_level /\ hint_level <= Len(available_hints)
    /\ hints_used = SubSeq(available_hints, 1, hint_level)
    /\ hint_level = Min(Len(hint_returns), Len(available_hints))
    /\ \A k \in 1..Len(hint_returns) :
           hint_returns[k] = IF k <= Len(available_hints)
                             THEN SomeHint(available_hints[k])
                             ELSE NoHint

\* every hint of a list of several was handed out and two more calls
\* returned None
C30_Witness ==
    /\ Len(available_hints) >= 2
    /\ Len(hint_returns) >= Len(available_hints) + 2
    /\ hint_returns[Len(hint_returns)] = NoHint
    /\ hint_level = Len(available_hints)

====
